---- MODULE Spec2Model ----
(***************************************************************************)
(* A model of mini-nest: the DI container (scanner, container, injector),  *)
(* the bootstrap sequence of MiniNestFactory.create, the route table and   *)
(* the per-request pipeline (guards, pipes, interceptors, handler, filters)*)
(***************************************************************************)
EXTENDS Integers, Sequences, FiniteSets, TLC

VARIABLES
    metadata,     \* what Reflect.getMetadata answers: the declarations of the application
    phase,        \* where MiniNestFactory.create / the application is
    modules,      \* NestContainer.modules: the registered module tokens, in insertion order
    distance,     \* Module.distance of each registered module
    registry,     \* scanForModules' registry argument (modules already visited)
    scanStack,    \* the active scanForModules invocations: [module, scope, i]
    wiring,       \* scanModulesForDependencies: index of the next module to wire
    modImports,   \* Module._imports   (a Set, in insertion order)
    modExports,   \* Module._exports   (a Set, in insertion order)
    modProviders, \* Module._providers (the keys of the Map, in insertion order)
    modControllers, \* Module._controllers (the keys of the Map, in insertion order)
    wrappers,     \* the InstanceWrapper of each (module, class): isResolved and instance
    instances,    \* the component objects constructed so far: [wrapper, args]
    frames,       \* the invocations of the injector's async functions (one promise each)
    stack,        \* the synchronous call stack (frame ids, innermost last)
    microtasks,   \* the promise job queue (FIFO)
    routes,       \* RouterExplorer.routes, in registration order
    customFilters, \* ExceptionsHandler.filters of the explorer's RouterExecutionContext
    requests,     \* the HTTP requests received so far, each with its progress and response
    pipesCall,    \* a call of PipesConsumer.applyPipes made on its own: arguments and outcome
    rescan,       \* a second call of scan: the container as it was when the call was made
    catsService   \* a CatsService used on its own: its records, its counter, its last call

vars == <<metadata, phase, modules, distance, registry, scanStack, wiring,
          modImports, modExports, modProviders, modControllers,
          wrappers, instances, frames, stack, microtasks,
          routes, customFilters, requests, pipesCall, rescan, catsService>>

discoveryVars == <<modules, distance, registry, scanStack>>

wiredVars == <<wiring, modImports, modExports, modProviders, modControllers>>

scanVars == <<discoveryVars, wiredVars, wrappers>>

injectVars == <<instances, frames, stack, microtasks>>

routerVars == <<routes, customFilters>>

\* what the scanner never touches
afterScanVars == <<injectVars, routerVars, requests, pipesCall, rescan, catsService>>

----------------------------------------------------------------------------
(* CatsService, the provider of the demo application that keeps records    *)

\* the largest number of cats created
MaxCreated == 3

\* private cats = [{ id: 1, ... }, { id: 2, ... }]; private nextId = 3
NewCatsService ==
    [cats |-> <<[id |-> 1, name |-> "Tom"], [id |-> 2, name |-> "Jerry"]>>,
     nextId |-> 3,
     assigned |-> {1, 2},
     last |-> [op |-> "", id |-> 0, before |-> {}]]

\* the objects create is given: a name, and whatever else the caller's object carries,
\* an id included; id is <<>> in an object without one
CatDtos == [name : {"Kitty"}, id : {<<>>} \cup {<<id>> : id \in 1..(2 + MaxCreated)}]

\* a create that keeps the counter's id whatever the object given carries
NewCatWithCounterId(nextId, dto) == [id |-> nextId, name |-> dto.name]

\* { id: this.nextId++, ...createCatDto }: the members of the object given come after id
NewCat(nextId, dto) ==
    [id |-> IF dto.id = <<>> THEN nextId ELSE dto.id[1], name |-> dto.name]

catsFixed ==
    <<metadata, phase, scanVars, injectVars, routerVars, requests, pipesCall, rescan>>

\* CatsService.create
Create ==
    /\ catsService.nextId < 3 + MaxCreated
    /\ \E dto \in CatDtos :
         LET newCat == NewCat(catsService.nextId, dto) IN
         catsService' = [cats |-> Append(catsService.cats, newCat),
                         nextId |-> catsService.nextId + 1,
                         assigned |-> catsService.assigned \cup {newCat.id},
                         last |-> [op |-> "create", id |-> newCat.id,
                                   before |-> catsService.assigned]]
    /\ UNCHANGED catsFixed

\* CatsService.remove: the first record with the id is spliced out
Remove ==
    /\ \E id \in 1..(2 + MaxCreated) :
         LET found == {k \in 1..Len(catsService.cats) : catsService.cats[k].id = id}
             index == CHOOSE k \in found : \A j \in found : k <= j
         IN catsService' =
                [catsService EXCEPT
                    !.cats = IF found = {} THEN @
                             ELSE SubSeq(@, 1, index - 1) \o SubSeq(@, index + 1, Len(@)),
                    !.last = [op |-> "remove", id |-> id, before |-> catsService.assigned]]
    /\ UNCHANGED catsFixed

----------------------------------------------------------------------------
(* The universe of declared classes.  A module's token is its class name   *)
(* (NestContainer.addModule), so module classes are named by their token.  *)

Modules == {"AppModule", "ModuleA", "ModuleB", "SharedModule"}
ModuleOrder == <<"AppModule", "ModuleA", "ModuleB", "SharedModule">>
RootModule == "AppModule"

Providers == {"AppService", "UserService", "SharedService"}
ControllerClasses == {"CatsController", "DogsController"}

\* the largest number of import declarations (edges) of a generated module graph
MaxEdges == 4

SeqToSet(s) == {s[k] : k \in 1..Len(s)}

Contains(s, x) == \E k \in 1..Len(s) : s[k] = x

\* Set.add / Map.set of a new key: insertion order is kept, a present key stays in place
SetAdd(s, x) == IF Contains(s, x) THEN s ELSE Append(s, x)

RECURSIVE AddAll(_, _)
AddAll(s, xs) == IF xs = <<>> THEN s ELSE AddAll(SetAdd(s, Head(xs)), Tail(xs))

Lists(S, k) == UNION {[1..n -> S] : n \in 0..k}

RECURSIVE ReachableFrom(_, _)
\* the modules reachable from the set S through the import lists g
ReachableFrom(g, S) ==
    LET T == S \cup UNION {SeqToSet(g[m]) : m \in S}
    IN IF T = S THEN S ELSE ReachableFrom(g, T)

\* the module graph in which the modules of ModuleOrder import the lists of d, in order
GraphOf(d) == [m \in Modules |-> d[CHOOSE k \in 1..Len(ModuleOrder) : ModuleOrder[k] = m]]

\* a generated module graph: at most MaxEdges import declarations, and only a module the
\* root reaches declares imports (the declarations of a class nothing imports are never read)
IsImportGraph(g) ==
    \A m \in Modules \ ReachableFrom(g, {RootModule}) : g[m] = <<>>

NoList == [m \in Modules |-> <<>>]

Components == Providers \cup ControllerClasses

\* an InstanceWrapper is named by its host module and its class
WrapperKeys == Modules \X Components

\* new InstanceWrapper({name, token, metatype, host}): no instance, not resolved
NewWrapper == [isResolved |-> FALSE, instance |-> 0]

----------------------------------------------------------------------------
(* Reflect.getMetadata(MODULE_METADATA.X, module) || []                    *)

\* a scanner that reads only the first declared import of a module
ReflectFirstImport(m) ==
    IF metadata.imports[m] = <<>> THEN <<>> ELSE <<Head(metadata.imports[m])>>

ReflectImports(m) == metadata.imports[m]
ReflectProviders(m) == metadata.providers[m]
ReflectControllers(m) == metadata.controllers[m]
ReflectExports(m) == metadata.exports[m]

----------------------------------------------------------------------------
(* DependenciesScanner.scanForModules and NestContainer.addModule          *)

HasModule(token) == Contains(modules, token)

\* an addModule that counts the module itself in its distance
AddModuleCountingSelf(metatype, scope) ==
    IF HasModule(metatype)
    THEN <<modules, distance>>
    ELSE <<Append(modules, metatype), [distance EXCEPT ![metatype] = Len(scope) + 1]>>

\* NestContainer.addModule(metatype, scope): the new <<modules, distance>>
AddModule(metatype, scope) ==
    IF HasModule(metatype)
    THEN <<modules, distance>>
    ELSE <<Append(modules, metatype), [distance EXCEPT ![metatype] = Len(scope)]>>

\* scan(module) calls scanForModules(module) with scope = [] and registry = []
ScanRoot ==
    /\ phase = "scan"
    /\ LET added == AddModule(RootModule, <<>>) IN
        /\ registry' = <<RootModule>>
        /\ modules' = added[1]
        /\ distance' = added[2]
        /\ scanStack' = <<[module |-> RootModule, scope |-> <<>>, i |-> 1]>>
    /\ phase' = "scanForModules"
    /\ UNCHANGED <<metadata, wiredVars, wrappers, afterScanVars>>

\* one iteration of `for (const innerModule of imports)`: the call
\* scanForModules(innerModule, [...scope, module], registry) up to its own loop
ScanImport ==
    /\ phase = "scanForModules"
    /\ scanStack # <<>>
    /\ LET top == scanStack[Len(scanStack)]
           imports == ReflectImports(top.module)
       IN
        /\ top.i <= Len(imports)
        /\ LET inner == imports[top.i]
               scope == Append(top.scope, top.module)
               caller == [scanStack EXCEPT ![Len(scanStack)].i = top.i + 1]
               added == AddModule(inner, scope)
           IN
            IF Contains(registry, inner)
            THEN /\ scanStack' = caller
                 /\ UNCHANGED <<registry, modules, distance>>
            ELSE /\ registry' = Append(registry, inner)
                 /\ modules' = added[1]
                 /\ distance' = added[2]
                 /\ scanStack' = Append(caller, [module |-> inner, scope |-> scope, i |-> 1])
    /\ UNCHANGED <<metadata, phase, wiredVars, wrappers, afterScanVars>>

\* the loop of the innermost scanForModules is over: it returns
ScanReturn ==
    /\ phase = "scanForModules"
    /\ scanStack # <<>>
    /\ LET top == scanStack[Len(scanStack)] IN top.i > Len(ReflectImports(top.module))
    /\ scanStack' = SubSeq(scanStack, 1, Len(scanStack) - 1)
    /\ phase' = IF Len(scanStack) = 1 THEN "scanDependencies" ELSE phase
    /\ UNCHANGED <<metadata, modules, distance, registry, wiredVars, wrappers, afterScanVars>>

----------------------------------------------------------------------------
(* DependenciesScanner.scanModulesForDependencies: one iteration wires one *)
(* registered module (reflectImports, reflectProviders, reflectControllers,*)
(* reflectExports)                                                         *)

RECURSIVE AddImports(_, _)
\* NestContainer.addImport for each declared import: added when both modules are registered
AddImports(s, rel) ==
    IF rel = <<>> THEN s
    ELSE AddImports(IF HasModule(Head(rel)) THEN SetAdd(s, Head(rel)) ELSE s, Tail(rel))

ScanModuleDependencies ==
    /\ phase = "scanDependencies"
    /\ wiring <= Len(modules)
    /\ LET token == modules[wiring] IN
        /\ modImports' = [modImports EXCEPT ![token] = AddImports(@, ReflectImports(token))]
        /\ modProviders' = [modProviders EXCEPT ![token] = AddAll(@, ReflectProviders(token))]
        /\ modControllers' =
               [modControllers EXCEPT ![token] = AddAll(@, ReflectControllers(token))]
        /\ modExports' = [modExports EXCEPT ![token] = AddAll(@, ReflectExports(token))]
        /\ wrappers' = [k \in WrapperKeys |->
                           IF /\ k[1] = token
                              /\ \/ Contains(ReflectProviders(token), k[2])
                                 \/ Contains(ReflectControllers(token), k[2])
                           THEN NewWrapper ELSE wrappers[k]]
    /\ wiring' = wiring + 1
    /\ UNCHANGED <<metadata, phase, discoveryVars, afterScanVars>>

\* the container as scan may change it
Container ==
    [modules |-> modules, distance |-> distance, imports |-> modImports,
     exports |-> modExports, providers |-> modProviders, controllers |-> modControllers,
     wrappers |-> wrappers]

NoRescan == [called |-> FALSE, at |-> "", before |-> <<>>]

\* NestContainer.bindGlobalScope: globalModules is empty (addGlobalModule has no caller);
\* scan returns to its caller
BindGlobalScope ==
    /\ phase = "scanDependencies"
    /\ wiring > Len(modules)
    /\ phase' = IF rescan.called THEN rescan.at ELSE "scanned"
    /\ UNCHANGED <<metadata, scanVars, afterScanVars>>

----------------------------------------------------------------------------
(* The injector.  Its functions are async: a call runs synchronously up to *)
(* its first await, an await always suspends, and a continuation runs as a *)
(* promise job once the stack is empty, jobs in FIFO order.                *)

\* the deepest synchronous call stack before the engine throws RangeError
MaxStack == 16

\* a constructor parameter whose design:paramtypes entry is no class (an interface)
Undefined == "undefined"

\* Reflect.getMetadata('design:paramtypes', metatype) || []
ReflectParamTypes(c) == metadata.paramtypes[c]

RECURSIVE InsertByDistance(_, _)
InsertByDistance(sorted, m) ==
    IF sorted = <<>> THEN <<m>>
    ELSE IF distance[Head(sorted)] <= distance[m]
         THEN <<Head(sorted)>> \o InsertByDistance(Tail(sorted), m)
         ELSE <<m>> \o sorted

RECURSIVE SortByDistance(_)
\* [...modules.values()].sort((a, b) => a.distance - b.distance): a stable sort
SortByDistance(ms) ==
    IF ms = <<>> THEN <<>>
    ELSE InsertByDistance(SortByDistance(SubSeq(ms, 1, Len(ms) - 1)), ms[Len(ms)])

RECURSIVE Loads(_, _, _)
Loads(fn, ms, items) ==
    IF ms = <<>> THEN <<>>
    ELSE [k \in 1..Len(items[Head(ms)]) |->
             [fn |-> fn, wrapper |-> <<Head(ms), items[Head(ms)][k]>>]]
         \o Loads(fn, Tail(ms), items)

RECURSIVE LoadsByModule(_)
LoadsByModule(ms) ==
    IF ms = <<>> THEN <<>>
    ELSE Loads("loadProvider", <<Head(ms)>>, modProviders)
         \o Loads("loadController", <<Head(ms)>>, modControllers)
         \o LoadsByModule(Tail(ms))

\* a createInstances of one pass: the providers, then the controllers, of a module at a time
LoadModuleByModule == LoadsByModule(SortByDistance(modules))

\* a createInstances that loads the providers only
LoadProvidersOnly == Loads("loadProvider", SortByDistance(modules), modProviders)

\* the calls createInstances makes, in order: every provider of every module by
\* ascending distance, then every controller in the same module order
LoadOrder ==
    Loads("loadProvider", SortByDistance(modules), modProviders)
        \o Loads("loadController", SortByDistance(modules), modControllers)

NoJob == [job |-> "none", frame |-> 0, k |-> 0]
ResumeJob(f) == [job |-> "resume", frame |-> f, k |-> 0]
AllJob(f, k) == [job |-> "all", frame |-> f, k |-> k]
\* MiniNestFactory.create, which awaits createInstances
CreateJob == [job |-> "create", frame |-> 0, k |-> 0]

\* a fresh invocation of the async function fn; its promise is pending
\* an Error of the injector, by what its message names: a component, the position of a
\* parameter (-1 for none) and a token
InjectorError(kind, component, index, token) ==
    [kind |-> kind, component |-> component, index |-> index, token |-> token]

NoInjectorError == InjectorError("", "", -1, "")

Frame(fn, w, m, tok, idx) ==
    [fn |-> fn, pc |-> "start", cont |-> "", wrapper |-> w, moduleRef |-> m,
     token |-> tok, index |-> idx, i |-> 1, elems |-> <<>>, found |-> <<>>,
     state |-> "pending", instance |-> 0, error |-> NoInjectorError, waiter |-> NoJob,
     allState |-> "none", remaining |-> 0, vals |-> <<>>, allError |-> NoInjectorError]

Top == stack[Len(stack)]
Pop == SubSeq(stack, 1, Len(stack) - 1)

\* the injector's functions run from createInstances on; what is left of them once
\* MiniNestFactory.create has been resumed runs after it has returned or thrown
Injecting == phase \in {"instances", "failed", "created", "listening"}

Running(fn, pc) ==
    /\ Injecting
    /\ stack # <<>>
    /\ frames[Top].fn = fn
    /\ frames[Top].pc = pc

Fulfil(fr) == [fr EXCEPT !.state = "fulfilled"]
Reject(fr, e) == [fr EXCEPT !.state = "rejected", !.error = e]

\* the running function f returns or throws: its promise settles as in `settled`, and the
\* reaction registered on it, if any, becomes a job
Return(f, settled) ==
    /\ frames' = [frames EXCEPT ![f] = settled]
    /\ stack' = Pop
    /\ microtasks' = IF frames[f].waiter = NoJob THEN microtasks
                     ELSE Append(microtasks, frames[f].waiter)

\* the running function f (left as `caller`) calls the async function of frame `callee`
Call(f, caller, callee) ==
    IF Len(stack) >= MaxStack
    THEN Return(f, Reject(frames[f], InjectorError("RangeError", "", -1, "")))
    ELSE /\ frames' = Append([frames EXCEPT ![f] = caller], callee)
         /\ stack' = Append(stack, Len(frames) + 1)
         /\ UNCHANGED microtasks

\* `await callee(...)`, the function continuing at `cont`
CallAwait(f, cont, callee) ==
    Call(f, [frames[f] EXCEPT !.pc = "await", !.cont = cont, !.elems = <<Len(frames) + 1>>],
         callee)

injectorFixed ==
    <<metadata, phase, discoveryVars, wiredVars, routerVars, requests, pipesCall, rescan, catsService>>

\* MiniNestFactory.create after `await scanner.scan(module)`: new Injector(), createInstances
CreateInstances ==
    /\ phase = "scanned"
    /\ phase' = "instances"
    /\ frames' = <<[Frame("createInstances", <<>>, "", "", 0) EXCEPT !.waiter = CreateJob]>>
    /\ stack' = <<1>>
    /\ UNCHANGED <<metadata, scanVars, instances, microtasks, routerVars, requests, pipesCall,
                   rescan, catsService>>

\* the two loops of createInstances: `await injector.loadProvider(wrapper, moduleRef)`
CreateInstancesLoop ==
    /\ Running("createInstances", "start")
    /\ LET f == Top
           i == frames[f].i
       IN IF i <= Len(LoadOrder)
          THEN CallAwait(f, "resumed",
                         Frame(LoadOrder[i].fn, LoadOrder[i].wrapper,
                               LoadOrder[i].wrapper[1], "", 0))
          ELSE Return(f, Fulfil(frames[f]))
    /\ UNCHANGED <<injectorFixed, wrappers, instances>>

CreateInstancesResumed ==
    /\ Running("createInstances", "resumed")
    /\ LET f == Top
           callee == frames[frames[f].elems[1]]
       IN IF callee.state = "rejected"
          THEN Return(f, Reject(frames[f], callee.error))
          ELSE /\ frames' = [frames EXCEPT ![f].pc = "start", ![f].i = @ + 1]
               /\ UNCHANGED <<stack, microtasks>>
    /\ UNCHANGED <<injectorFixed, wrappers, instances>>

\* `await p`: the function suspends; it resumes in a job once p is settled
Await ==
    /\ Injecting
    /\ stack # <<>>
    /\ frames[Top].pc = "await"
    /\ LET f == Top
           c == frames[f].elems[1]
       IN IF frames[c].state = "pending"
          THEN /\ frames' = [frames EXCEPT ![f].pc = frames[f].cont,
                                           ![c].waiter = ResumeJob(f)]
               /\ UNCHANGED microtasks
          ELSE /\ frames' = [frames EXCEPT ![f].pc = frames[f].cont]
               /\ microtasks' = Append(microtasks, ResumeJob(f))
    /\ stack' = Pop
    /\ UNCHANGED <<injectorFixed, wrappers, instances>>

\* the job that resumes a suspended function
ResumeTask ==
    /\ Injecting
    /\ stack = <<>>
    /\ microtasks # <<>>
    /\ Head(microtasks).job = "resume"
    /\ stack' = <<Head(microtasks).frame>>
    /\ microtasks' = Tail(microtasks)
    /\ UNCHANGED <<injectorFixed, wrappers, instances, frames>>

\* Injector.loadProvider / Injector.loadController up to the await
Load(fn) ==
    /\ Running(fn, "start")
    /\ LET f == Top
           w == frames[f].wrapper
       IN IF wrappers[w].isResolved
          THEN Return(f, Fulfil(frames[f]))
          ELSE CallAwait(f, "done",
                         Frame("resolveConstructorParams", w, frames[f].moduleRef, "", 0))
    /\ UNCHANGED <<injectorFixed, wrappers, instances>>

\* ... and after it
LoadDone(fn) ==
    /\ Running(fn, "done")
    /\ LET f == Top
           callee == frames[frames[f].elems[1]]
       IN IF callee.state = "rejected"
          THEN Return(f, Reject(frames[f], callee.error))
          ELSE Return(f, Fulfil(frames[f]))
    /\ UNCHANGED <<injectorFixed, wrappers, instances>>

LoadProvider == Load("loadProvider")
LoadProviderDone == LoadDone("loadProvider")
LoadController == Load("loadController")
LoadControllerDone == LoadDone("loadController")

\* resolveConstructorParams: one call of dependencies.map's callback
ResolveConstructorParams ==
    /\ Running("resolveConstructorParams", "start")
    /\ LET f == Top
           fr == frames[f]
           deps == ReflectParamTypes(fr.wrapper[2])
       IN /\ fr.i <= Len(deps)
          /\ Call(f, [fr EXCEPT !.i = @ + 1, !.elems = Append(@, Len(frames) + 1)],
                  Frame("resolveSingleParam", fr.wrapper, fr.moduleRef, deps[fr.i], fr.i - 1))
    /\ UNCHANGED <<injectorFixed, wrappers, instances>>

\* resolveConstructorParams: `await Promise.all(promises)`
PromiseAll ==
    /\ Running("resolveConstructorParams", "start")
    /\ LET f == Top
           fr == frames[f]
           n == Len(ReflectParamTypes(fr.wrapper[2]))
           settled == SelectSeq([k \in 1..n |-> k],
                                LAMBDA k : frames[fr.elems[k]].state # "pending")
       IN /\ fr.i > n
          /\ frames' =
               [id \in DOMAIN frames |->
                  IF id = f
                  THEN [fr EXCEPT !.pc = "construct",
                                  !.allState = IF n = 0 THEN "fulfilled" ELSE "pending",
                                  !.remaining = n,
                                  !.vals = [k \in 1..n |-> 0]]
                  ELSE IF /\ frames[id].state = "pending"
                          /\ \E k \in 1..n : fr.elems[k] = id
                       THEN [frames[id] EXCEPT
                                !.waiter = AllJob(f, CHOOSE k \in 1..n : fr.elems[k] = id)]
                       ELSE frames[id]]
          /\ microtasks' = microtasks
                             \o [j \in 1..Len(settled) |-> AllJob(f, settled[j])]
                             \o (IF n = 0 THEN <<ResumeJob(f)>> ELSE <<>>)
    /\ stack' = Pop
    /\ UNCHANGED <<injectorFixed, wrappers, instances>>

\* the job Promise.all runs when its k-th promise settles
PromiseAllElement ==
    /\ Injecting
    /\ stack = <<>>
    /\ microtasks # <<>>
    /\ Head(microtasks).job = "all"
    /\ LET f == Head(microtasks).frame
           k == Head(microtasks).k
           fr == frames[f]
           e == frames[fr.elems[k]]
       IN IF e.state = "fulfilled"
          THEN /\ frames' = [frames EXCEPT
                               ![f].vals[k] = e.instance,
                               ![f].remaining = @ - 1,
                               ![f].allState = IF fr.remaining = 1 /\ @ = "pending"
                                               THEN "fulfilled" ELSE @]
               /\ microtasks' = IF fr.remaining = 1 /\ fr.allState = "pending"
                                THEN Append(Tail(microtasks), ResumeJob(f))
                                ELSE Tail(microtasks)
          ELSE /\ frames' = [frames EXCEPT
                               ![f].allState = IF @ = "pending" THEN "rejected" ELSE @,
                               ![f].allError = IF fr.allState = "pending" THEN e.error ELSE @]
               /\ microtasks' = IF fr.allState = "pending"
                                THEN Append(Tail(microtasks), ResumeJob(f))
                                ELSE Tail(microtasks)
    /\ UNCHANGED <<injectorFixed, wrappers, instances, stack>>

\* resolveConstructorParams after the await: new metatype(...instances), setResolved()
Construct ==
    /\ Running("resolveConstructorParams", "construct")
    /\ LET f == Top
           fr == frames[f]
       IN IF fr.allState = "rejected"
          THEN /\ Return(f, Reject(fr, fr.allError))
               /\ UNCHANGED <<wrappers, instances>>
          ELSE /\ instances' = Append(instances, [wrapper |-> fr.wrapper, args |-> fr.vals])
               /\ wrappers' = [wrappers EXCEPT ![fr.wrapper] =
                                 [isResolved |-> TRUE, instance |-> Len(instances) + 1]]
               /\ Return(f, Fulfil(fr))
    /\ UNCHANGED injectorFixed

\* a resolveSingleParam that returns instanceWrapper.instance without loading the provider
LoadFoundAsIs(f, found) ==
    Return(f, Fulfil([frames[f] EXCEPT !.found = found,
                                       !.instance = wrappers[found].instance]))

\* resolveSingleParam once the InstanceWrapper `found` is known
LoadFound(f, found) ==
    IF wrappers[found].isResolved
    THEN Return(f, Fulfil([frames[f] EXCEPT !.found = found,
                                            !.instance = wrappers[found].instance]))
    ELSE Call(f, [frames[f] EXCEPT !.found = found, !.pc = "await", !.cont = "loaded",
                                   !.elems = <<Len(frames) + 1>>],
              Frame("loadProvider", found, found[1], "", 0))

\* resolveSingleParam up to its first await
ResolveSingleParam ==
    /\ Running("resolveSingleParam", "start")
    /\ LET f == Top
           fr == frames[f]
       IN IF fr.token = Undefined
          THEN Return(f, Reject(fr, InjectorError("undefined parameter type",
                                                  fr.wrapper[2], fr.index, "")))
          ELSE IF Contains(modProviders[fr.moduleRef], fr.token)
               THEN LoadFound(f, <<fr.moduleRef, fr.token>>)
               ELSE CallAwait(f, "looked",
                              Frame("lookupComponentInImports", <<>>, fr.moduleRef,
                                    fr.token, 0))
    /\ UNCHANGED <<injectorFixed, wrappers, instances>>

\* resolveSingleParam after `await this.lookupComponentInImports(...)`
ResolveSingleParamLooked ==
    /\ Running("resolveSingleParam", "looked")
    /\ LET f == Top
           callee == frames[frames[f].elems[1]]
       IN IF callee.state = "rejected"
          THEN Return(f, Reject(frames[f], callee.error))
          ELSE IF callee.found = <<>>
               THEN Return(f, Reject(frames[f], InjectorError("unresolved dependency", "", -1,
                                                              frames[f].token)))
               ELSE LoadFound(f, callee.found)
    /\ UNCHANGED <<injectorFixed, wrappers, instances>>

\* a resolveSingleParam that returns the instance that was constructed first for the binding
ResolveSingleParamFirstBuilt ==
    /\ Running("resolveSingleParam", "loaded")
    /\ LET f == Top
           callee == frames[frames[f].elems[1]]
           built == {k \in 1..Len(instances) : instances[k].wrapper = frames[f].found}
       IN IF callee.state = "rejected"
          THEN Return(f, Reject(frames[f], callee.error))
          ELSE Return(f, Fulfil([frames[f] EXCEPT
                                   !.instance = CHOOSE k \in built : \A j \in built : k <= j]))
    /\ UNCHANGED <<injectorFixed, wrappers, instances>>

\* resolveSingleParam after `await this.loadProvider(...)`: return instanceWrapper.instance
ResolveSingleParamLoaded ==
    /\ Running("resolveSingleParam", "loaded")
    /\ LET f == Top
           callee == frames[frames[f].elems[1]]
       IN IF callee.state = "rejected"
          THEN Return(f, Reject(frames[f], callee.error))
          ELSE Return(f, Fulfil([frames[f] EXCEPT
                                   !.instance = wrappers[frames[f].found].instance]))
    /\ UNCHANGED <<injectorFixed, wrappers, instances>>

\* a lookup that asks the imported modules only, without looking through them
LookupComponentInDirectImports ==
    /\ Running("lookupComponentInImports", "start")
    /\ LET f == Top
           fr == frames[f]
           imports == modImports[fr.moduleRef]
       IN IF fr.i > Len(imports)
          THEN Return(f, Fulfil(fr))
          ELSE LET relatedModule == imports[fr.i] IN
               IF /\ Contains(modExports[relatedModule], fr.token)
                  /\ Contains(modProviders[relatedModule], fr.token)
               THEN Return(f, Fulfil([fr EXCEPT !.found = <<relatedModule, fr.token>>]))
               ELSE /\ frames' = [frames EXCEPT ![f].i = @ + 1]
                    /\ UNCHANGED <<stack, microtasks>>
    /\ UNCHANGED <<injectorFixed, wrappers, instances>>

\* a lookup that takes the provider of the first related module that has one, exported
\* or not
LookupComponentInProviders ==
    /\ Running("lookupComponentInImports", "start")
    /\ LET f == Top
           fr == frames[f]
           imports == modImports[fr.moduleRef]
       IN IF fr.i > Len(imports)
          THEN Return(f, Fulfil(fr))
          ELSE LET relatedModule == imports[fr.i] IN
               IF Contains(modProviders[relatedModule], fr.token)
               THEN Return(f, Fulfil([fr EXCEPT !.found = <<relatedModule, fr.token>>]))
               ELSE CallAwait(f, "found",
                              Frame("lookupComponentInImports", <<>>, relatedModule,
                                    fr.token, 0))
    /\ UNCHANGED <<injectorFixed, wrappers, instances>>

\* the largest number of calls of lookupComponentInImports the heap has room for
MaxLookups == 24

\* the calls of lookupComponentInImports made so far
Lookups == {f \in 1..Len(frames) : frames[f].fn = "lookupComponentInImports"}

\* lookupComponentInImports: one iteration of `for (const relatedModule of moduleRef.imports)`
LookupComponentInImports ==
    /\ Running("lookupComponentInImports", "start")
    /\ LET f == Top
           fr == frames[f]
           imports == modImports[fr.moduleRef]
       IN IF fr.i > Len(imports)
          THEN Return(f, Fulfil(fr))
          ELSE LET relatedModule == imports[fr.i] IN
               IF ~Contains(modExports[relatedModule], fr.token)
               THEN /\ Cardinality(Lookups) < MaxLookups
                    /\ CallAwait(f, "found",
                                 Frame("lookupComponentInImports", <<>>, relatedModule,
                                       fr.token, 0))
               ELSE IF Contains(modProviders[relatedModule], fr.token)
                    THEN Return(f, Fulfil([fr EXCEPT !.found = <<relatedModule, fr.token>>]))
                    ELSE /\ frames' = [frames EXCEPT ![f].i = @ + 1]
                         /\ UNCHANGED <<stack, microtasks>>
    /\ UNCHANGED <<injectorFixed, wrappers, instances>>

\* a lookup that notes what the search through an import found and goes on to the next import
LookupComponentFoundLast ==
    /\ Running("lookupComponentInImports", "found")
    /\ LET f == Top
           callee == frames[frames[f].elems[1]]
       IN IF callee.state = "rejected"
          THEN Return(f, Reject(frames[f], callee.error))
          ELSE /\ frames' = [frames EXCEPT
                     ![f].pc = "start",
                     ![f].i = @ + 1,
                     ![f].found = IF callee.found # <<>> THEN callee.found ELSE @]
               /\ UNCHANGED <<stack, microtasks>>
    /\ UNCHANGED <<injectorFixed, wrappers, instances>>

\* lookupComponentInImports after the recursive await: `if (found) return found; continue`
LookupComponentFound ==
    /\ Running("lookupComponentInImports", "found")
    /\ LET f == Top
           callee == frames[frames[f].elems[1]]
       IN IF callee.state = "rejected"
          THEN Return(f, Reject(frames[f], callee.error))
          ELSE IF callee.found # <<>>
               THEN Return(f, Fulfil([frames[f] EXCEPT !.found = callee.found]))
               ELSE /\ frames' = [frames EXCEPT ![f].pc = "start", ![f].i = @ + 1]
                    /\ UNCHANGED <<stack, microtasks>>
    /\ UNCHANGED <<injectorFixed, wrappers, instances>>

\* the job that resumes MiniNestFactory.create after
\* `await this.createInstances(container, injector)`: it goes on, or throws the rejection
InstancesDone ==
    /\ phase = "instances"
    /\ stack = <<>>
    /\ microtasks # <<>>
    /\ Head(microtasks).job = "create"
    /\ microtasks' = Tail(microtasks)
    /\ phase' = IF frames[1].state = "fulfilled" THEN "instantiated" ELSE "failed"
    /\ UNCHANGED <<metadata, scanVars, instances, frames, stack, routerVars, requests,
                   pipesCall, rescan, catsService>>

NextInject ==
    \/ CreateInstances
    \/ CreateInstancesLoop
    \/ CreateInstancesResumed
    \/ Await
    \/ ResumeTask
    \/ LoadProvider
    \/ LoadProviderDone
    \/ LoadController
    \/ LoadControllerDone
    \/ ResolveConstructorParams
    \/ PromiseAll
    \/ PromiseAllElement
    \/ Construct
    \/ ResolveSingleParam
    \/ ResolveSingleParamLooked
    \/ ResolveSingleParamLoaded
    \/ LookupComponentInImports
    \/ LookupComponentFound
    \/ InstancesDone

----------------------------------------------------------------------------
(* RouterExplorer: the route table.  A path is the sequence of its         *)
(* characters.                                                             *)

RECURSIVE StripLeading(_)
StripLeading(p) == IF p # <<>> /\ Head(p) = "/" THEN StripLeading(Tail(p)) ELSE p

RECURSIVE StripTrailing(_)
StripTrailing(p) ==
    IF p # <<>> /\ p[Len(p)] = "/" THEN StripTrailing(SubSeq(p, 1, Len(p) - 1)) ELSE p

\* p.replace(/^\/+|\/+$/g, '')
StripSlashes(p) == StripTrailing(StripLeading(p))

RECURSIVE JoinPaths(_)
\* paths.map(strip).filter(p => p).join('/')
JoinPaths(paths) ==
    IF paths = <<>> THEN <<>>
    ELSE LET first == StripSlashes(Head(paths))
             rest == JoinPaths(Tail(paths))
         IN IF first = <<>> THEN rest
            ELSE IF rest = <<>> THEN first
            ELSE first \o <<"/">> \o rest

\* RouterExplorer.normalizePath(controllerPath, routePath)
NormalizePath(controllerPath, routePath) == <<"/">> \o JoinPaths(<<controllerPath, routePath>>)

\* Reflect.getMetadata(PATH_METADATA, metatype) || '/'
ControllerPath(c) ==
    IF metadata.controller[c].path = <<>> THEN <<"/">> ELSE metadata.controller[c].path

\* a reflectGuards that puts the handler's guards first
ReflectHandlerFirst(c, h) == h.guards \o metadata.controller[c].guards

\* reflectGuards / reflectPipes / reflectInterceptors / reflectFilters: the instances of the
\* controller-level classes, then those of the method-level classes
ReflectGuards(c, h) == metadata.controller[c].guards \o h.guards
ReflectPipes(c, h) == metadata.controller[c].pipes \o h.pipes
ReflectInterceptors(c, h) == metadata.controller[c].interceptors \o h.interceptors
ReflectFilters(c, h) == metadata.controller[c].filters \o h.filters

\* the RouteInfo exploreController pushes for the method h of controller c; the lists are
\* what the requestHandler made by RouterExecutionContext.create closes over
RouteInfo(c, h) ==
    [method |-> h.method,
     path |-> NormalizePath(ControllerPath(c), h.path),
     methodName |-> h.name,
     controllerClass |-> c,
     guards |-> ReflectGuards(c, h),
     pipes |-> ReflectPipes(c, h),
     interceptors |-> ReflectInterceptors(c, h),
     args |-> h.args,
     does |-> h.does]

IsRouted(h) == h.routed

\* exploreController(wrapper, metatype): nothing without an instance; one route per method
\* that carries both a path and a request method
ExploreController(m, c) ==
    IF wrappers[<<m, c>>].instance = 0 THEN <<>>
    ELSE LET hs == SelectSeq(metadata.controller[c].methods, IsRouted)
         IN [k \in 1..Len(hs) |-> [route |-> RouteInfo(c, hs[k]),
                                  filters |-> ReflectFilters(c, hs[k])]]

RECURSIVE ExploreControllers(_, _)
ExploreControllers(m, cs) ==
    IF cs = <<>> THEN <<>>
    ELSE ExploreController(m, Head(cs)) \o ExploreControllers(m, Tail(cs))

RECURSIVE ExploreModules(_)
\* container.getModules().forEach(moduleRef => routerExplorer.explore(moduleRef))
ExploreModules(ms) ==
    IF ms = <<>> THEN <<>>
    ELSE ExploreControllers(Head(ms), modControllers[Head(ms)]) \o ExploreModules(Tail(ms))

\* MiniNestFactory.create after createInstances: the routes are registered and the
\* application is returned.  Every RouterExecutionContext.create call stores its filter
\* list in the one ExceptionsHandler (setCustomFilters), so the last call's list stays
Explore ==
    /\ phase = "instantiated"
    /\ LET created == ExploreModules(modules) IN
        /\ routes' = [k \in 1..Len(created) |-> created[k].route]
        /\ customFilters' = IF created = <<>> THEN customFilters
                            ELSE created[Len(created)].filters
    /\ phase' = "created"
    /\ UNCHANGED <<metadata, scanVars, injectVars, requests, pipesCall, rescan, catsService>>

\* MiniNestApplication.listen(port): the server accepts requests
Listen ==
    /\ phase = "created"
    /\ phase' = "listening"
    /\ UNCHANGED <<metadata, scanVars, injectVars, routerVars, requests, pipesCall, rescan, catsService>>

----------------------------------------------------------------------------
(* Requests.  A value (an argument, a result, a body) is a sequence of     *)
(* strings whose first element is its kind.                                *)

Undef == <<"undefined">>

\* the largest number of requests the server receives
MaxRequests == 2

\* (req.method || 'GET').toLowerCase()
ToLowerCase(m) ==
    CASE m = "GET" -> "get" [] m = "POST" -> "post" [] m = "DELETE" -> "delete" [] OTHER -> m

RECURSIVE Before(_, _)
\* the characters of s before the first c
Before(s, c) == IF s = <<>> \/ Head(s) = c THEN <<>> ELSE <<Head(s)>> \o Before(Tail(s), c)

\* new URL(req.url, base).pathname: the url up to its query
Pathname(url) == Before(url, "?")

RECURSIVE AfterName(_)
\* what follows a `:name` in a route path: the name runs up to the next slash
AfterName(pat) == IF pat = <<>> \/ Head(pat) = "/" THEN pat ELSE AfterName(Tail(pat))

RECURSIVE Test(_, _)
\* new RegExp(`^${routePattern}$`).test(pathname), routePattern being the route path with
\* every `:name` replaced by ([^/]+); the rest of the path is put into the pattern as it
\* is, so that a dot of the path stands for any character
Test(pat, s) ==
    IF pat = <<>> THEN s = <<>>
    ELSE IF Head(pat) = ":" /\ Len(pat) >= 2 /\ pat[2] # "/"
         THEN \E k \in 1..Len(s) :
                /\ \A j \in 1..k : s[j] # "/"
                /\ Test(AfterName(Tail(pat)), SubSeq(s, k + 1, Len(s)))
         ELSE IF Head(pat) = "."
         THEN /\ s # <<>>
              /\ Test(Tail(pat), Tail(s))
         ELSE /\ s # <<>>
              /\ Head(s) = Head(pat)
              /\ Test(Tail(pat), Tail(s))

RouteMatches(route, method, pathname) ==
    /\ route.method = method
    /\ Test(route.path, pathname)

\* a findRoute that compares the path only
FindRouteByPath(method, pathname) ==
    IF \E k \in 1..Len(routes) : Test(routes[k].path, pathname)
    THEN CHOOSE k \in 1..Len(routes) :
            /\ Test(routes[k].path, pathname)
            /\ \A j \in 1..(k - 1) : ~Test(routes[j].path, pathname)
    ELSE 0

\* RouterExplorer.findRoute: the index of the first matching route, 0 for undefined
FindRoute(method, pathname) ==
    IF \E k \in 1..Len(routes) : RouteMatches(routes[k], method, pathname)
    THEN CHOOSE k \in 1..Len(routes) :
            /\ RouteMatches(routes[k], method, pathname)
            /\ \A j \in 1..(k - 1) : ~RouteMatches(routes[j], method, pathname)
    ELSE 0

RECURSIVE SplitOn(_, _)
\* s.split(c)
SplitOn(s, c) ==
    LET first == Before(s, c)
    IN IF Len(first) = Len(s) THEN <<first>>
       ELSE <<first>> \o SplitOn(SubSeq(s, Len(first) + 2, Len(s)), c)

\* path.split('/')
Split(p) == SplitOn(p, "/")

\* url.searchParams.get(name): the value of the first `name=value` of the query, or null
SearchParam(url, name) ==
    LET query == SubSeq(url, Len(Pathname(url)) + 2, Len(url))
        pairs == SplitOn(query, "&")
        hits == {k \in 1..Len(pairs) : Before(pairs[k], "=") = name /\ pairs[k] # <<>>}
    IN IF hits = {} THEN <<"null">>
       ELSE LET first == CHOOSE k \in hits : \A j \in hits : k <= j
            IN <<"string">> \o SubSeq(pairs[first], Len(name) + 2, Len(pairs[first]))

\* extractPathParams(routePath, actualPath)[name]
PathParam(routePath, actualPath, name) ==
    LET routeParts == Split(routePath)
        actualParts == Split(actualPath)
        hits == {k \in 1..Len(routeParts) : routeParts[k] = <<":">> \o name}
    IN IF hits = {} THEN Undef
       ELSE LET last == CHOOSE k \in hits : \A j \in hits : j <= k
            IN IF last <= Len(actualParts) THEN <<"string">> \o actualParts[last] ELSE Undef

\* createBodyParser: JSON.parse(body), and on a syntax error body || {}
JsonParse(body) ==
    CASE body = "" -> <<"object">>
      [] body = "{}" -> <<"object">>
      [] body = "{\"name\":\"Tom\"}" -> <<"object", "name", "Tom">>
      [] body = "{\"name\":\"\"}" -> <<"object", "name", "">>
      [] OTHER -> <<"string", body>>

\* body?.[data]
Field(body, data) ==
    IF Head(body) = "object" /\ Len(body) = 3 /\ data = <<body[2]>>
    THEN <<"string", body[3]>> ELSE Undef

----------------------------------------------------------------------------
(* The components an application attaches to its routes (the demo          *)
(* application's guards, pipes, interceptors and filters), the exceptions  *)
(* and the controller methods                                              *)

\* the response an HttpException was constructed with when it is an object: its statusCode
\* member (0 when it has none) and its message member (empty when it has none)
NoObject == [isObject |-> FALSE, statusCode |-> 0, message |-> <<>>]

NoError == [class |-> "", status |-> 0, message |-> <<>>, response |-> NoObject]

\* new HttpException(response, status) and its subclasses; new Error(message)
Exception(class, status, message) ==
    [class |-> class, status |-> status, message |-> message, response |-> NoObject]

\* new HttpException({ statusCode, message }, status): initMessage takes the message of the
\* object, or the name of the class when the object has none
ObjectException(class, status, statusCode, message) ==
    [class |-> class, status |-> status,
     message |-> IF message # <<>> THEN message ELSE <<class>>,
     response |-> [isObject |-> TRUE, statusCode |-> statusCode, message |-> message]]

HttpExceptions ==
    {"HttpException", "BadRequestException", "UnauthorizedException", "ForbiddenException",
     "NotFoundException", "InternalServerErrorException"}

\* the status each subclass of HttpException passes to super(message, status)
DeclaredStatus(class) ==
    CASE class = "BadRequestException" -> 400
      [] class = "UnauthorizedException" -> 401
      [] class = "ForbiddenException" -> 403
      [] class = "NotFoundException" -> 404
      [] OTHER -> 500

\* exception instanceof type
InstanceOf(exception, type) ==
    \/ exception.class = type
    \/ type = "HttpException" /\ exception.class \in HttpExceptions
    \/ type = "Error" /\ exception.class \in HttpExceptions \cup {"Error"}

Returned(value) == [ok |-> TRUE, value |-> value, error |-> NoError]
Thrown(exception) == [ok |-> FALSE, value |-> Undef, error |-> exception]

\* guard.canActivate(context)
CanActivate(guard, req) ==
    CASE guard = "AuthGuard" -> req.authorization = "Bearer valid-token"
      [] guard = "RolesGuard" -> req.role = "admin"
      [] OTHER -> TRUE

IsDigit(c) == c \in {"0", "1", "2", "3", "4", "5", "6", "7", "8", "9"}

RECURSIVE Digits(_)
\* the leading digits of a string
Digits(cs) == IF cs # <<>> /\ IsDigit(Head(cs)) THEN <<Head(cs)>> \o Digits(Tail(cs)) ELSE <<>>

\* the defaultValue of new DefaultValuePipe(defaultValue)
DefaultValue == <<"string", "0">>

\* pipe.transform(value, metadata)
Transform(pipe, value, meta) ==
    CASE pipe = "ParseIntPipe" ->
            IF Head(value) \in {"string", "number"} /\ Digits(Tail(value)) # <<>>
            THEN Returned(<<"number">> \o Digits(Tail(value)))
            ELSE Thrown(Exception("BadRequestException", 400,
                                  <<"must be an integer">> \o meta.data))
      [] pipe = "ValidationPipe" ->
            IF /\ meta.type = "body"
               /\ Head(value) = "object"
               /\ Len(value) = 3
               /\ value[2] = "name"
               /\ value[3] = ""
            THEN Thrown(Exception("BadRequestException", 400, <<"name is empty">>))
            ELSE Returned(value)
      [] pipe = "DefaultValuePipe" ->
            IF value \in {Undef, <<"null">>} THEN Returned(DefaultValue) ELSE Returned(value)
      [] OTHER -> Returned(value)

RECURSIVE ApplyPipesFromLast(_, _, _)
\* an applyPipes that goes through the pipes from the last to the first
ApplyPipesFromLast(value, meta, pipes) ==
    IF pipes = <<>> THEN Returned(value)
    ELSE LET last == Transform(pipes[Len(pipes)], value, meta)
         IN IF last.ok THEN ApplyPipesFromLast(last.value, meta, SubSeq(pipes, 1, Len(pipes) - 1))
            ELSE last

RECURSIVE ApplyPipes(_, _, _)
\* PipesConsumer.applyPipes: each pipe transforms the previous pipe's value
ApplyPipes(value, meta, pipes) ==
    IF pipes = <<>> THEN Returned(value)
    ELSE LET first == Transform(Head(pipes), value, meta)
         IN IF first.ok THEN ApplyPipes(first.value, meta, Tail(pipes)) ELSE first

\* what an interceptor returns from the value of next.handle()
Intercepted(interceptor, value) ==
    IF interceptor = "TransformInterceptor" THEN <<"success">> \o value ELSE value

\* handler.apply(instance, args): the controller methods
Invoke(does, args) ==
    CASE does = "findAll" -> Returned(<<"cats">>)
      [] does = "findOne" ->
            IF args # <<>> /\ args[1] \in {<<"number", "1">>, <<"string", "1">>}
            THEN Returned(<<"cat", "1">>)
            ELSE Thrown(Exception("NotFoundException", 404, <<"no such cat">>))
      [] does = "create" -> Returned(<<"created">> \o (IF args = <<>> THEN Undef ELSE args[1]))
      [] does = "crash" -> Thrown(Exception("Error", 0, <<"boom">>))
      [] does = "sendThenFail" -> Thrown(Exception("Error", 0, <<"late">>))
      [] OTHER -> Returned(Undef)

\* a controller method that takes @Res() and calls res.end() itself
Sends(does) == does \in {"send", "sendThenFail"}

\* an interceptor that calls context.getResponse().end() before next.handle()
Responds(interceptor) == interceptor = "respondingInterceptor"

\* Reflect.getMetadata(FILTER_CATCH_EXCEPTIONS, filter.constructor) || []
CatchTypes(filter) ==
    IF filter = "HttpExceptionFilter" THEN <<"HttpException">> ELSE <<>>

\* a findFilter that keeps the last filter that catches
FindLastFilter(filters, exception) ==
    LET catches(k) ==
            \/ CatchTypes(filters[k]) = <<>>
            \/ \E t \in SeqToSet(CatchTypes(filters[k])) : InstanceOf(exception, t)
    IN IF \E k \in 1..Len(filters) : catches(k)
       THEN CHOOSE k \in 1..Len(filters) : catches(k) /\ \A j \in (k + 1)..Len(filters) : ~catches(j)
       ELSE 0

\* ExceptionsHandler.findFilter: the index of the first filter that catches, 0 for undefined
FindFilter(filters, exception) ==
    LET catches(k) ==
            \/ CatchTypes(filters[k]) = <<>>
            \/ \E t \in SeqToSet(CatchTypes(filters[k])) : InstanceOf(exception, t)
    IN IF \E k \in 1..Len(filters) : catches(k)
       THEN CHOOSE k \in 1..Len(filters) : catches(k) /\ \A j \in 1..(k - 1) : ~catches(j)
       ELSE 0

NoResponse ==
    [ended |-> FALSE, statusCode |-> 200, by |-> "", fields |-> {}, message |-> <<>>,
     data |-> Undef, bodyStatus |-> 0, bodies |-> 0]

\* a writer that sends its body whatever the state of the response
EndAgain(res, by, status, fields, message, data) ==
    [ended |-> TRUE, statusCode |-> status, by |-> by, fields |-> fields,
     message |-> message, data |-> data,
     bodyStatus |-> IF "statusCode" \in fields THEN status ELSE 0,
     bodies |-> res.bodies + 1]

\* res.statusCode = status; res.setHeader(...); res.end(JSON.stringify(body)): on a
\* response that was ended setHeader throws and nothing more is written; bodyStatus is the
\* statusCode member of the body, 0 when the body has none, bodies the number of bodies
\* the response was sent
End(res, by, status, fields, message, data) ==
    IF res.ended THEN res
    ELSE [ended |-> TRUE, statusCode |-> status, by |-> by, fields |-> fields,
          message |-> message, data |-> data,
          bodyStatus |-> IF "statusCode" \in fields THEN status ELSE 0,
          bodies |-> 1]

\* filter.catch(exception, host): the demo application's filters
Catch(filter, exception, res) ==
    IF filter = "HttpExceptionFilter"
    THEN End(res, filter, exception.status,
             {"statusCode", "timestamp", "path", "method", "message"}, exception.message, Undef)
    ELSE End(res, filter, IF InstanceOf(exception, "HttpException") THEN exception.status ELSE 500,
             {"statusCode", "timestamp", "path", "error"},
             IF InstanceOf(exception, "Error") THEN exception.message
             ELSE <<"internal error of the server">>, Undef)

\* body = { statusCode: status, ...exceptionResponse }: the members of the object come
\* after statusCode and replace it when the object has a statusCode of its own
SpreadOver(ended, response) ==
    [ended EXCEPT
        !.fields = {"statusCode"} \cup (IF response.message # <<>> THEN {"message"} ELSE {}),
        !.message = response.message,
        !.bodyStatus = IF response.statusCode # 0 THEN response.statusCode ELSE @]

\* ExceptionsHandler.handleDefault
HandleDefault(exception, res) ==
    IF InstanceOf(exception, "HttpException")
    THEN IF ~exception.response.isObject
         THEN End(res, "handleDefault", exception.status, {"statusCode", "message"},
                  exception.message, Undef)
         ELSE IF res.ended THEN res
         ELSE SpreadOver(End(res, "handleDefault", exception.status, {"statusCode"}, <<>>, Undef),
                         exception.response)
    ELSE IF InstanceOf(exception, "Error")
         THEN End(res, "handleDefault", 500, {"statusCode", "message"}, exception.message, Undef)
         ELSE End(res, "handleDefault", 500, {"statusCode", "message"},
                  <<"Internal Server Error">>, Undef)

\* ExceptionsHandler.handle(exception, host)
Handle(filters, exception, res) ==
    IF FindFilter(filters, exception) # 0
    THEN Catch(filters[FindFilter(filters, exception)], exception, res)
    ELSE HandleDefault(exception, res)

----------------------------------------------------------------------------
(* PipesConsumer.applyPipes called on its own, as its tests call it        *)

\* the longest list of pipes of such a call
MaxPipes == 3

NoCall == [state |-> "none", value |-> Undef, metadata |-> [type |-> "", data |-> <<>>],
           pipes |-> <<>>, result |-> Returned(Undef)]

PipeClasses == {"ValidationPipe", "ParseIntPipe", "DefaultValuePipe"}

\* the values handed to the pipes
PipeValues ==
    {Undef, <<"null">>, <<"string", "7">>, <<"string", "x">>, <<"number", "7">>,
     <<"object", "name", "">>, <<"object", "name", "Tom">>}

\* the ArgumentMetadata handed to the pipes
PipeMetadata ==
    {[type |-> "body", data |-> <<>>], [type |-> "param", data |-> <<"i", "d">>],
     [type |-> "query", data |-> <<"n">>]}

\* await pipesConsumer.applyPipes(value, metadata, pipes)
ApplyPipesCall ==
    /\ pipesCall.state = "called"
    /\ pipesCall' = [pipesCall EXCEPT
           !.state = "returned",
           !.result = ApplyPipes(pipesCall.value, pipesCall.metadata, pipesCall.pipes)]
    /\ UNCHANGED <<metadata, phase, scanVars, injectVars, routerVars, requests, rescan, catsService>>

----------------------------------------------------------------------------
(* The request pipeline: RouterExplorer.createRequestHandler and the       *)
(* handler RouterExecutionContext.create returns.  Each request keeps the  *)
(* log of what ran for it.                                                 *)

Ev(e, k) == [e |-> e, k |-> k]

Request(method, url, authorization, role, body) ==
    [method |-> method, url |-> url, authorization |-> authorization, role |-> role,
     body |-> body]

\* the requests clients send
Requests ==
    {Request("GET", <<"/", "c", "a", "t", "s">>, "", "", ""),
     Request("GET", <<"/", "c", "a", "t", "s", "/", "1">>, "", "", ""),
     Request("GET", <<"/", "c", "a", "t", "s", "/", "x">>, "", "", ""),
     Request("GET", <<"/", "c", "a", "t", "s", "/", "2", "?", "n", "=", "1">>, "", "", ""),
     Request("POST", <<"/", "c", "a", "t", "s">>, "Bearer valid-token", "admin",
             "{\"name\":\"Tom\"}"),
     Request("POST", <<"/", "c", "a", "t", "s">>, "Bearer valid-token", "user",
             "{\"name\":\"\"}"),
     Request("POST", <<"/", "c", "a", "t", "s">>, "", "admin", "{\"name\":\"Tom\"}"),
     Request("GET", <<"/", "d", "o", "g", "s">>, "", "admin", ""),
     Request("DELETE", <<"/", "c", "a", "t", "s">>, "Bearer valid-token", "admin", ""),
     Request("GET", <<"/", "c", "a", "t">>, "", "", "")}

NewRequest(q) ==
    [method |-> q.method, url |-> q.url, authorization |-> q.authorization, role |-> q.role,
     body |-> q.body, pc |-> "received", route |-> 0, gi |-> 1, parsed |-> Undef,
     args |-> <<>>, transformed |-> <<>>, ai |-> 1, depth |-> 0, result |-> Undef,
     error |-> NoError, res |-> NoResponse, offered |-> <<>>, log |-> <<>>]

\* the continuations of a request are promise jobs: once a request runs, no other event
\* (a new request, the end of another request's body) is served before it waits for its
\* own body or is done
Waiting(r) == requests[r].pc \in {"body", "done"}

At(r, pc) ==
    /\ r \in 1..Len(requests)
    /\ requests[r].pc = pc
    /\ \A other \in 1..Len(requests) : other # r => Waiting(other)

RouteOf(r) == routes[requests[r].route]

requestFixed == <<metadata, phase, scanVars, injectVars, routerVars, pipesCall, rescan, catsService>>

\* a throw that nothing catches: the promise of the handler is rejected
ThrowUncaught(req, exception, events) ==
    [req EXCEPT !.error = exception, !.pc = "done", !.log = @ \o events]

\* a throw that is noted while the handler goes on to send the response
ThrowAndGoOn(req, exception, events) ==
    [req EXCEPT !.error = exception, !.pc = "emit", !.log = @ \o events]

\* the first throw inside the try block: control goes to the catch clause
Throw(req, exception, events) ==
    [req EXCEPT !.error = exception, !.pc = "catch", !.log = @ \o events]

\* createRequestHandler's handler: no route answers 404; otherwise the route's
\* requestHandler starts with guardsConsumer.tryActivate
HandleRequest ==
    /\ phase = "listening"
    /\ stack = <<>>
    /\ microtasks = <<>>
    /\ Len(requests) < MaxRequests
    /\ \A other \in 1..Len(requests) : Waiting(other)
    /\ \E q \in Requests :
         LET req == NewRequest(q)
             method == ToLowerCase(q.method)
             pathname == Pathname(q.url)
             route == FindRoute(method, pathname)
         IN requests' = Append(requests,
              IF route = 0
              THEN [req EXCEPT !.pc = "done",
                               !.res = End(@, "notFound", 404, {"statusCode", "message"},
                                           <<"Cannot", q.method>> \o pathname, Undef),
                               !.log = <<Ev("notFound", 0)>>]
              ELSE [req EXCEPT !.pc = "guards", !.route = route,
                               !.log = <<Ev("guards", 0)>>])
    /\ UNCHANGED requestFixed

\* a tryActivate that lets the request pass as soon as one guard allows
TryActivateAny(req, guards) ==
    IF guards = <<>> \/ CanActivate(guards[req.gi], req)
    THEN [req EXCEPT !.pc = "body",
                     !.log = IF guards = <<>> THEN @ ELSE Append(@, Ev("guard", req.gi))]
    ELSE IF req.gi = Len(guards)
    THEN Throw(req, Exception("ForbiddenException", 403, <<"Forbidden resource">>),
               <<Ev("guard", req.gi)>>)
    ELSE [req EXCEPT !.gi = @ + 1, !.log = Append(@, Ev("guard", req.gi))]

\* a tryActivate that only logs a denial and goes on
TryActivateLogging(req, guards) ==
    IF guards = <<>> THEN [req EXCEPT !.pc = "body"]
    ELSE [req EXCEPT !.gi = @ + 1,
                     !.pc = IF req.gi = Len(guards) THEN "body" ELSE "guards",
                     !.log = Append(@, Ev("guard", req.gi))]

\* GuardsConsumer.tryActivate(guards, context): no guards pass at once; otherwise one
\* iteration of its loop, which throws ForbiddenException when the guard denies
TryActivate(req, guards) ==
    IF guards = <<>> THEN [req EXCEPT !.pc = "body"]
    ELSE IF ~CanActivate(guards[req.gi], req)
    THEN Throw(req, Exception("ForbiddenException", 403, <<"Forbidden resource">>),
               <<Ev("guard", req.gi)>>)
    ELSE [req EXCEPT !.gi = @ + 1,
                     !.pc = IF req.gi = Len(guards) THEN "body" ELSE "guards",
                     !.log = Append(@, Ev("guard", req.gi))]

\* await this.guardsConsumer.tryActivate(guards, context)
Guards ==
    /\ \E r \in 1..Len(requests) :
         /\ At(r, "guards")
         /\ requests' = [requests EXCEPT ![r] = TryActivate(requests[r], RouteOf(r).guards)]
    /\ UNCHANGED requestFixed

\* a parseBody that reads the body of the request received last
ParseBodyOfLatest ==
    /\ \E r \in 1..Len(requests) :
         /\ At(r, "body")
         /\ requests' = [requests EXCEPT
                ![r].parsed = JsonParse(requests[Len(requests)].body),
                ![r].pc = "params",
                ![r].log = Append(@, Ev("body", 0))]
    /\ UNCHANGED requestFixed

\* const body = await parseBody(req)
ParseBody ==
    /\ \E r \in 1..Len(requests) :
         /\ At(r, "body")
         /\ requests' = [requests EXCEPT ![r].parsed = JsonParse(requests[r].body),
                                         ![r].pc = "params",
                                         ![r].log = Append(@, Ev("body", 0))]
    /\ UNCHANGED requestFixed

\* the value createParamsResolver's switch gives the argument described by meta
ArgValue(meta, req, route) ==
    CASE meta.type = "REQUEST" -> <<"request">>
      [] meta.type = "RESPONSE" -> <<"response">>
      [] meta.type = "BODY" ->
            IF meta.data = <<>> THEN req.parsed ELSE Field(req.parsed, meta.data)
      [] meta.type = "PARAM" ->
            IF meta.data = <<>> THEN <<"params">>
            ELSE PathParam(route.path, Pathname(req.url), meta.data)
      [] meta.type = "QUERY" ->
            IF meta.data = <<>> THEN <<"query">> ELSE SearchParam(req.url, meta.data)
      [] meta.type = "HEADERS" ->
            IF meta.data = <<"authorization">> /\ req.authorization # ""
            THEN <<"string", req.authorization>> ELSE Undef
      [] OTHER -> Undef

\* resolveParams(req, res, body): args[index] for every described argument, holes undefined
Args(req, route) ==
    LET metas == route.args
        size == IF metas = <<>> THEN 0
                ELSE 1 + (CHOOSE n \in {metas[k].index : k \in 1..Len(metas)} :
                             \A k \in 1..Len(metas) : metas[k].index <= n)
        at(i) == {k \in 1..Len(metas) : metas[k].index = i}
    IN [i \in 1..size |->
          IF at(i - 1) = {} THEN Undef
          ELSE ArgValue(metas[CHOOSE k \in at(i - 1) : \A j \in at(i - 1) : j <= k], req, route)]

\* paramTypeToString
ParamTypeToString(type) ==
    CASE type = "BODY" -> "body" [] type = "QUERY" -> "query" [] type = "PARAM" -> "param"
      [] OTHER -> "custom"

\* a handler that goes from the arguments straight to the interceptors
ResolveParamsOnly ==
    /\ \E r \in 1..Len(requests) :
         /\ At(r, "params")
         /\ LET args == Args(requests[r], RouteOf(r)) IN
            requests' = [requests EXCEPT
                ![r].args = args,
                ![r].transformed = args,
                ![r].pc = "interceptors",
                ![r].log = @ \o <<Ev("params", 0)>>]
    /\ UNCHANGED requestFixed

\* let args = resolveParams(req, res, body), and the call of applyPipesToArgs, which
\* returns args as they are when the route has no pipes
ResolveParams ==
    /\ \E r \in 1..Len(requests) :
         /\ At(r, "params")
         /\ LET args == Args(requests[r], RouteOf(r)) IN
            requests' = [requests EXCEPT
                ![r].args = args,
                ![r].transformed = args,
                ![r].pc = IF RouteOf(r).pipes = <<>> \/ RouteOf(r).args = <<>>
                          THEN "interceptors" ELSE "pipes",
                ![r].log = @ \o <<Ev("params", 0), Ev("pipes", 0)>>]
    /\ UNCHANGED requestFixed

\* applyPipesToArgs: one iteration of `for (const key of Object.keys(argsMetadata))`
ApplyPipesToArgs ==
    /\ \E r \in 1..Len(requests) :
         /\ At(r, "pipes")
         /\ LET req == requests[r]
                meta == RouteOf(r).args[req.ai]
                piped == ApplyPipes(req.args[meta.index + 1],
                                    [type |-> ParamTypeToString(meta.type), data |-> meta.data],
                                    RouteOf(r).pipes)
            IN requests' = [requests EXCEPT ![r] =
                 IF ~piped.ok THEN Throw(req, piped.error, <<Ev("pipe", meta.index)>>)
                 ELSE [req EXCEPT !.transformed[meta.index + 1] = piped.value,
                                  !.ai = @ + 1,
                                  !.pc = IF req.ai = Len(RouteOf(r).args)
                                         THEN "interceptors" ELSE "pipes",
                                  !.log = Append(@, Ev("pipe", meta.index))]]
    /\ UNCHANGED requestFixed

\* a pipeline folded from the left: the last interceptor ends up outermost
PipelineReduce(interceptors) ==
    [d \in 1..Len(interceptors) |-> Len(interceptors) + 1 - d]

\* interceptors.reduceRight((nextFn, interceptor) => ..., next): the interceptors from the
\* outermost to the innermost, by their position in the list
Pipeline(interceptors) == [d \in 1..Len(interceptors) |-> d]

\* interceptor.intercept(context, callHandler) is entered: the interceptor at position k
\* runs up to its next.handle()
Enter(req, k) ==
    IF Responds(routes[req.route].interceptors[k])
    THEN [req EXCEPT !.res = End(@, "interceptor", 200, {}, <<>>, <<"early">>),
                     !.log = @ \o <<Ev("before", k), Ev("end", k)>>]
    ELSE [req EXCEPT !.log = Append(@, Ev("before", k))]

\* a step 6 that writes the result whatever the state of the response
SendAnyway(res, result) ==
    [ended |-> TRUE, statusCode |-> res.statusCode, by |-> "emit", fields |-> {},
     message |-> <<>>, data |-> result, bodyStatus |-> 0, bodies |-> res.bodies + 1]

\* if (!res.writableEnded) { res.setHeader(...); res.end(JSON.stringify(result)) }
Send(res, result) ==
    IF res.ended THEN res ELSE End(res, "emit", res.statusCode, {}, <<>>, result)

\* an interceptor that returns without calling next.handle()
ShortCircuits(interceptor) == interceptor = "cacheInterceptor"

\* an interceptor that awaits next.handle() inside try and returns a value from its catch
Catches(interceptor) == interceptor = "errorHandlingInterceptor"

\* a rejected next.handle() that no interceptor gets to see
UnwindUncaught(req, exception, events) == Throw(req, exception, events)

\* next() has rejected inside the pipeline: the rejection passes the waiting interceptors
\* from the innermost outwards; the first one that catches it returns { error: message }
\* to the interceptor around it, and when none does it leaves intercept()
Unwind(req, exception, events) ==
    LET interceptors == routes[req.route].interceptors
        catching == {d \in 1..req.depth : Catches(interceptors[Pipeline(interceptors)[d]])}
        stop == IF catching = {} THEN 0
                ELSE CHOOSE d \in catching : \A other \in catching : other <= d
        passed == [i \in 1..(req.depth - stop) |->
                      Ev("rethrow", Pipeline(interceptors)[req.depth + 1 - i])]
    IN IF stop = 0 THEN Throw(req, exception, events \o passed)
       ELSE [req EXCEPT !.result = <<"error">> \o exception.message,
                        !.depth = stop - 1,
                        !.pc = IF stop = 1 THEN "emit" ELSE "after",
                        !.log = @ \o events \o passed
                                  \o <<Ev("caught", Pipeline(interceptors)[stop])>>]

\* InterceptorsConsumer.intercept: without interceptors it calls next(); otherwise the
\* pipeline starts with its outermost interceptor
Intercept ==
    /\ \E r \in 1..Len(requests) :
         /\ At(r, "interceptors")
         /\ LET req == [requests[r] EXCEPT !.args = requests[r].transformed,
                                           !.log = Append(@, Ev("interceptors", 0))]
            IN requests' = [requests EXCEPT ![r] =
                 IF RouteOf(r).interceptors = <<>>
                 THEN [req EXCEPT !.depth = 0, !.pc = "handler"]
                 ELSE Enter([req EXCEPT !.depth = 1, !.pc = "before"],
                            Pipeline(RouteOf(r).interceptors)[1])]
    /\ UNCHANGED requestFixed

\* an interceptor awaits next.handle(): the next interceptor is entered, or, after the
\* last one, the controller method is called; an interceptor that does not call it
\* returns its own value to the interceptor around it
NextHandle ==
    /\ \E r \in 1..Len(requests) :
         /\ At(r, "before")
         /\ LET d == requests[r].depth
                k == Pipeline(RouteOf(r).interceptors)[d]
            IN
            requests' = [requests EXCEPT ![r] =
                 IF ShortCircuits(RouteOf(r).interceptors[k])
                 THEN [@ EXCEPT !.result = <<"cached">>,
                                !.depth = d - 1,
                                !.pc = IF d = 1 THEN "emit" ELSE "after",
                                !.log = Append(@, Ev("after", k))]
                 ELSE IF d < Len(RouteOf(r).interceptors)
                 THEN Enter([@ EXCEPT !.depth = d + 1],
                            Pipeline(RouteOf(r).interceptors)[d + 1])
                 ELSE [@ EXCEPT !.pc = "handler"]]
    /\ UNCHANGED requestFixed

\* handler.apply(instance, args)
InvokeHandler ==
    /\ \E r \in 1..Len(requests) :
         /\ At(r, "handler")
         /\ LET req == requests[r]
                out == Invoke(RouteOf(r).does, req.args)
            IN requests' = [requests EXCEPT ![r] =
                 IF ~out.ok /\ Sends(RouteOf(r).does)
                 THEN Unwind([req EXCEPT !.res = End(@, "handler", 200, {}, <<>>, <<"sent">>)],
                             out.error, <<Ev("handler", 0), Ev("end", 0)>>)
                 ELSE IF ~out.ok THEN Unwind(req, out.error, <<Ev("handler", 0)>>)
                 ELSE IF Sends(RouteOf(r).does)
                 THEN [req EXCEPT !.result = out.value,
                                  !.res = End(@, "handler", 200, {}, <<>>, <<"sent">>),
                                  !.pc = IF req.depth = 0 THEN "emit" ELSE "after",
                                  !.log = @ \o <<Ev("handler", 0), Ev("end", 0)>>]
                 ELSE [req EXCEPT !.result = out.value,
                                  !.pc = IF req.depth = 0 THEN "emit" ELSE "after",
                                  !.log = Append(@, Ev("handler", 0))]]
    /\ UNCHANGED requestFixed

\* next.handle() has returned: the innermost interceptor still waiting finishes
AfterHandle ==
    /\ \E r \in 1..Len(requests) :
         /\ At(r, "after")
         /\ LET req == requests[r]
                k == Pipeline(RouteOf(r).interceptors)[req.depth]
            IN requests' = [requests EXCEPT ![r] =
                 [req EXCEPT !.result = Intercepted(RouteOf(r).interceptors[k], @),
                             !.depth = @ - 1,
                             !.pc = IF req.depth = 1 THEN "emit" ELSE "after",
                             !.log = Append(@, Ev("after", k))]]
    /\ UNCHANGED requestFixed

\* if (!res.writableEnded) res.end(JSON.stringify(result))
Emit ==
    /\ \E r \in 1..Len(requests) :
         /\ At(r, "emit")
         /\ requests' = [requests EXCEPT
                ![r].res = Send(@, requests[r].result),
                ![r].pc = "done",
                ![r].log = Append(@, Ev("emit", 0))]
    /\ UNCHANGED requestFixed

\* a catch clause that leaves the exceptions handler without its custom filters
HandleExceptionAndReset ==
    /\ \E r \in 1..Len(requests) :
         /\ At(r, "catch")
         /\ requests' = [requests EXCEPT
                ![r].offered = customFilters,
                ![r].res = Handle(customFilters, requests[r].error, @),
                ![r].pc = "done",
                ![r].log = Append(@, Ev("catch", 0))]
    /\ customFilters' = <<>>
    /\ UNCHANGED <<metadata, phase, scanVars, injectVars, routes, pipesCall, rescan, catsService>>

\* catch (error): this.exceptionsHandler.handle(error, host)
HandleException ==
    /\ \E r \in 1..Len(requests) :
         /\ At(r, "catch")
         /\ requests' = [requests EXCEPT
                ![r].offered = customFilters,
                ![r].res = Handle(customFilters, requests[r].error, @),
                ![r].pc = "done",
                ![r].log = Append(@, Ev("catch", 0))]
    /\ UNCHANGED requestFixed

NextRequest ==
    \/ HandleRequest
    \/ Guards
    \/ ParseBody
    \/ ResolveParams
    \/ ApplyPipesToArgs
    \/ Intercept
    \/ NextHandle
    \/ InvokeHandler
    \/ AfterHandle
    \/ Emit
    \/ HandleException

----------------------------------------------------------------------------

EmptyContainer ==
    /\ modules = <<>>
    /\ distance = [m \in Modules |-> 0]
    /\ registry = <<>>
    /\ scanStack = <<>>
    /\ wiring = 1
    /\ modImports = NoList
    /\ modExports = NoList
    /\ modProviders = NoList
    /\ modControllers = NoList
    /\ wrappers = [k \in WrapperKeys |-> NewWrapper]

NoParams == [c \in Components |-> <<>>]

NotStarted ==
    /\ instances = <<>>
    /\ frames = <<>>
    /\ stack = <<>>
    /\ microtasks = <<>>
    /\ routes = <<>>
    /\ customFilters = <<>>
    /\ requests = <<>>
    /\ pipesCall = NoCall
    /\ rescan = NoRescan
    /\ catsService = NewCatsService

\* the declarations of the scanner's tests: a module graph g around a shared provider
ScanMetadata(g) ==
    [imports |-> g,
     providers |-> [NoList EXCEPT !["SharedModule"] = <<"SharedService">>,
                                  !["AppModule"] = <<"AppService">>],
     controllers |-> [NoList EXCEPT !["AppModule"] = <<"CatsController">>],
     exports |-> [NoList EXCEPT !["SharedModule"] = <<"SharedService">>],
     paramtypes |-> [NoParams EXCEPT !["CatsController"] = <<"AppService">>,
                                     !["AppService"] = <<"SharedService">>]]

InitScan ==
    /\ \E l1 \in Lists(Modules, MaxEdges) :
       \E l2 \in Lists(Modules, MaxEdges - Len(l1)) :
       \E l3 \in Lists(Modules, MaxEdges - Len(l1) - Len(l2)) :
       \E l4 \in Lists(Modules, MaxEdges - Len(l1) - Len(l2) - Len(l3)) :
          /\ IsImportGraph(GraphOf(<<l1, l2, l3, l4>>))
          /\ metadata = ScanMetadata(GraphOf(<<l1, l2, l3, l4>>))
    /\ phase = "scan"
    /\ EmptyContainer
    /\ NotStarted

\* scanner.scan(module) called once more on the same container, after the first scan or
\* after createInstances: scanForModules starts with a fresh registry, and
\* scanModulesForDependencies goes through the modules from the first
ScanAgain ==
    /\ phase \in {"scanned", "instantiated"}
    /\ ~rescan.called
    /\ rescan' = [called |-> TRUE, at |-> phase, before |-> Container]
    /\ phase' = "scan"
    /\ wiring' = 1
    /\ UNCHANGED <<metadata, discoveryVars, modImports, modExports, modProviders,
                   modControllers, wrappers, injectVars, routerVars, requests, pipesCall,
                   catsService>>

NextScan ==
    \/ ScanRoot
    \/ ScanImport
    \/ ScanReturn
    \/ ScanModuleDependencies
    \/ BindGlobalScope

SpecScan == InitScan /\ [][NextScan]_vars

----------------------------------------------------------------------------
(* Bootstrap of one module importing a shared module, over every           *)
(* declaration of constructor parameters and every order of the providers  *)

\* the decorations of the demo application's controllers
Arg(index, type, data) == [index |-> index, type |-> type, data |-> data]

Method(name, routed, method, path, guards, pipes, interceptors, filters, args, does) ==
    [name |-> name, routed |-> routed, method |-> method, path |-> path, guards |-> guards,
     pipes |-> pipes, interceptors |-> interceptors, filters |-> filters, args |-> args,
     does |-> does]

ControllerMetadata(path, guards, pipes, interceptors, filters, methods) ==
    [path |-> path, guards |-> guards, pipes |-> pipes, interceptors |-> interceptors,
     filters |-> filters, methods |-> methods]

CatsController(createGuards) ==
    ControllerMetadata(<<"c", "a", "t", "s">>, <<>>, <<>>, <<"LoggingInterceptor">>,
        <<"HttpExceptionFilter">>,
        <<Method("findAll", TRUE, "get", <<"/">>, <<>>, <<>>, <<"TransformInterceptor">>,
                 <<>>, <<>>, "findAll"),
          Method("findOne", TRUE, "get", <<":", "i", "d">>, <<>>, <<"ParseIntPipe">>, <<>>,
                 <<>>, <<Arg(0, "PARAM", <<"i", "d">>)>>, "findOne"),
          Method("helper", FALSE, "", <<>>, <<>>, <<>>, <<>>, <<>>, <<>>, ""),
          Method("create", TRUE, "post", <<"/">>, createGuards, <<"ValidationPipe">>,
                 <<>>, <<>>, <<Arg(0, "BODY", <<>>)>>, "create")>>)

DogsController(filters) ==
    ControllerMetadata(<<"/", "d", "o", "g", "s", "/">>, <<"RolesGuard">>, <<>>, <<>>, <<>>,
        <<Method("crash", TRUE, "get", <<"/">>, <<>>, <<>>,
                 <<"LoggingInterceptor", "TransformInterceptor">>, filters, <<>>, "crash")>>)

\* the largest total number of constructor parameters the providers declare
MaxParams == 3

NoRepeat(s) == \A j, k \in 1..Len(s) : s[j] = s[k] => j = k

\* no provider needs itself, directly or through the parameters of its dependencies
Acyclic(pt) ==
    \A c \in Providers : c \notin ReachableFrom(pt, SeqToSet(pt[c]))

DependencyMetadata(order, pA, pU, pS) ==
    [imports |-> [NoList EXCEPT !["AppModule"] = <<"SharedModule">>],
     providers |-> [NoList EXCEPT !["SharedModule"] = <<"SharedService">>,
                                  !["AppModule"] = order],
     controllers |-> [NoList EXCEPT !["AppModule"] = <<"CatsController">>],
     exports |-> [NoList EXCEPT !["SharedModule"] = <<"SharedService">>],
     paramtypes |-> [NoParams EXCEPT !["CatsController"] = <<"AppService">>,
                                     !["AppService"] = pA,
                                     !["UserService"] = pU,
                                     !["SharedService"] = pS],
     controller |-> [CatsController |-> CatsController(<<"AuthGuard">>),
                     DogsController |-> DogsController(<<>>)]]

InitInject ==
    /\ \E order \in {o \in Lists(Providers, Cardinality(Providers)) : NoRepeat(o)} :
       \E pA \in Lists(Providers, MaxParams) :
       \E pU \in Lists(Providers, MaxParams - Len(pA)) :
       \E pS \in Lists(Providers, MaxParams - Len(pA) - Len(pU)) :
          /\ Acyclic([AppService |-> pA, UserService |-> pU, SharedService |-> pS])
          /\ metadata = DependencyMetadata(order, pA, pU, pS)
    /\ phase = "scan"
    /\ EmptyContainer
    /\ NotStarted

NextBoot == NextScan \/ NextInject

SpecInject == InitInject /\ [][NextBoot]_vars

----------------------------------------------------------------------------
(* Bootstrap over the import graphs between AppModule, whose AppService    *)
(* needs SharedService, and SharedModule, which provides and exports it;   *)
(* ModuleA and ModuleB may list SharedService in their exports, and        *)
(* ModuleA may provide a SharedService of its own                          *)

\* the largest number of import declarations of these graphs
MaxImports == 3

\* no module imports itself, directly or through its imports
AcyclicImports(g) == \A m \in Modules : m \notin ReachableFrom(g, SeqToSet(g[m]))

VisibilityMetadata(g, providersA, exportsA, exportsB) ==
    [imports |-> g,
     providers |-> [NoList EXCEPT !["AppModule"] = <<"AppService">>,
                                  !["ModuleA"] = providersA,
                                  !["SharedModule"] = <<"SharedService">>],
     controllers |-> [NoList EXCEPT !["AppModule"] = <<"CatsController">>],
     exports |-> [NoList EXCEPT !["SharedModule"] = <<"SharedService">>,
                                !["ModuleA"] = exportsA,
                                !["ModuleB"] = exportsB],
     paramtypes |-> [NoParams EXCEPT !["CatsController"] = <<"AppService">>,
                                     !["AppService"] = <<"SharedService">>],
     controller |-> [CatsController |-> CatsController(<<"AuthGuard">>),
                     DogsController |-> DogsController(<<>>)]]

InitVisibility ==
    /\ \E l1 \in Lists(Modules, MaxImports) :
       \E l2 \in Lists(Modules, MaxImports - Len(l1)) :
       \E l3 \in Lists(Modules, MaxImports - Len(l1) - Len(l2)) :
       \E l4 \in Lists(Modules, MaxImports - Len(l1) - Len(l2) - Len(l3)) :
       \E providersA, exportsA, exportsB \in {<<>>, <<"SharedService">>} :
          /\ IsImportGraph(GraphOf(<<l1, l2, l3, l4>>))
          /\ AcyclicImports(GraphOf(<<l1, l2, l3, l4>>))
          /\ metadata = VisibilityMetadata(GraphOf(<<l1, l2, l3, l4>>),
                                          providersA, exportsA, exportsB)
    /\ phase = "scan"
    /\ EmptyContainer
    /\ NotStarted

SpecVisibility == InitVisibility /\ [][NextBoot]_vars

\* the same modules over every import graph, those with import cycles included, where
\* only SharedModule lists SharedService in its exports
InitImportCycles ==
    /\ \E l1 \in Lists(Modules, MaxImports) :
       \E l2 \in Lists(Modules, MaxImports - Len(l1)) :
       \E l3 \in Lists(Modules, MaxImports - Len(l1) - Len(l2)) :
       \E l4 \in Lists(Modules, MaxImports - Len(l1) - Len(l2) - Len(l3)) :
          /\ IsImportGraph(GraphOf(<<l1, l2, l3, l4>>))
          /\ metadata = VisibilityMetadata(GraphOf(<<l1, l2, l3, l4>>), <<>>, <<>>, <<>>)
    /\ phase = "scan"
    /\ EmptyContainer
    /\ NotStarted

SpecImportCycles == InitImportCycles /\ [][NextBoot]_vars

----------------------------------------------------------------------------
(* Bootstrap over the import graphs of four modules with providers and     *)
(* controllers at several distances: AppModule (AppService, which needs    *)
(* SharedService, and CatsController), ModuleB (UserService and            *)
(* DogsController) and SharedModule (exports SharedService)                *)

OrderMetadata(g) ==
    [imports |-> g,
     providers |-> [NoList EXCEPT !["AppModule"] = <<"AppService">>,
                                  !["ModuleB"] = <<"UserService">>,
                                  !["SharedModule"] = <<"SharedService">>],
     controllers |-> [NoList EXCEPT !["AppModule"] = <<"CatsController">>,
                                    !["ModuleB"] = <<"DogsController">>],
     exports |-> [NoList EXCEPT !["SharedModule"] = <<"SharedService">>],
     paramtypes |-> [NoParams EXCEPT !["CatsController"] = <<"AppService">>,
                                     !["DogsController"] = <<"UserService">>,
                                     !["AppService"] = <<"SharedService">>],
     controller |-> [CatsController |-> CatsController(<<"AuthGuard">>),
                     DogsController |-> DogsController(<<>>)]]

InitOrder ==
    /\ \E l1 \in Lists(Modules, MaxImports) :
       \E l2 \in Lists(Modules, MaxImports - Len(l1)) :
       \E l3 \in Lists(Modules, MaxImports - Len(l1) - Len(l2)) :
       \E l4 \in Lists(Modules, MaxImports - Len(l1) - Len(l2) - Len(l3)) :
          /\ IsImportGraph(GraphOf(<<l1, l2, l3, l4>>))
          /\ AcyclicImports(GraphOf(<<l1, l2, l3, l4>>))
          /\ metadata = OrderMetadata(GraphOf(<<l1, l2, l3, l4>>))
    /\ phase = "scan"
    /\ EmptyContainer
    /\ NotStarted

SpecOrder == InitOrder /\ [][NextBoot]_vars

\* ... with a second scan of the same root on the same container
NextRescan == NextBoot \/ ScanAgain

SpecRescan == InitOrder /\ [][NextRescan]_vars

----------------------------------------------------------------------------
(* Bootstrap of a diamond: AppModule imports SharedModule and ModuleA,     *)
(* ModuleA imports SharedModule; SharedModule exports SharedService,       *)
(* ModuleA exports UserService; over the parameters of AppService          *)

\* the largest number of constructor parameters of AppService
MaxArgs == 3

DiamondMetadata(pA, pU) ==
    [imports |-> [NoList EXCEPT !["AppModule"] = <<"SharedModule", "ModuleA">>,
                                !["ModuleA"] = <<"SharedModule">>],
     providers |-> [NoList EXCEPT !["AppModule"] = <<"AppService">>,
                                  !["ModuleA"] = <<"UserService">>,
                                  !["SharedModule"] = <<"SharedService">>],
     controllers |-> [NoList EXCEPT !["AppModule"] = <<"CatsController">>],
     exports |-> [NoList EXCEPT !["ModuleA"] = <<"UserService">>,
                                !["SharedModule"] = <<"SharedService">>],
     paramtypes |-> [NoParams EXCEPT !["CatsController"] = <<"AppService">>,
                                     !["AppService"] = pA,
                                     !["UserService"] = pU],
     controller |-> [CatsController |-> CatsController(<<"AuthGuard">>),
                     DogsController |-> DogsController(<<>>)]]

InitDiamond ==
    /\ \E pA \in Lists({"SharedService", "UserService"}, MaxArgs) :
       \E pU \in Lists({"SharedService"}, 1) :
          metadata = DiamondMetadata(pA, pU)
    /\ phase = "scan"
    /\ EmptyContainer
    /\ NotStarted

SpecDiamond == InitDiamond /\ [][NextBoot]_vars

----------------------------------------------------------------------------
(* Bootstrap of a module whose providers need one another in a circle      *)

\* provider c needs itself, directly or through the parameters of its dependencies
OnCycle(c) ==
    c \in ReachableFrom(metadata.paramtypes, SeqToSet(metadata.paramtypes[c]))

\* AppService and UserService in the root module, SharedService reached through a module
\* that imports its module without exporting it
CycleMetadata(pA, pU) ==
    [imports |-> [NoList EXCEPT !["AppModule"] = <<"ModuleA">>,
                                !["ModuleA"] = <<"SharedModule">>],
     providers |-> [NoList EXCEPT !["SharedModule"] = <<"SharedService">>,
                                  !["AppModule"] = <<"AppService", "UserService">>],
     controllers |-> [NoList EXCEPT !["AppModule"] = <<"CatsController">>],
     exports |-> [NoList EXCEPT !["SharedModule"] = <<"SharedService">>],
     paramtypes |-> [NoParams EXCEPT !["CatsController"] = <<"AppService">>,
                                     !["AppService"] = pA,
                                     !["UserService"] = pU],
     controller |-> [CatsController |-> CatsController(<<"AuthGuard">>),
                     DogsController |-> DogsController(<<>>)]]

InitCycle ==
    /\ \E pA \in Lists(Providers, MaxParams) :
       \E pU \in Lists(Providers, MaxParams - Len(pA)) :
          /\ ~Acyclic([AppService |-> pA, UserService |-> pU, SharedService |-> <<>>])
          /\ metadata = CycleMetadata(pA, pU)
    /\ phase = "scan"
    /\ EmptyContainer
    /\ NotStarted

SpecCycle == InitCycle /\ [][NextBoot]_vars

----------------------------------------------------------------------------
(* PipesConsumer.applyPipes on every value, argument metadata and list of  *)
(* pipes                                                                   *)

InitPipes ==
    /\ metadata = ScanMetadata(NoList)
    /\ phase = "scan"
    /\ EmptyContainer
    /\ instances = <<>>
    /\ frames = <<>>
    /\ stack = <<>>
    /\ microtasks = <<>>
    /\ routes = <<>>
    /\ customFilters = <<>>
    /\ requests = <<>>
    /\ \E value \in PipeValues : \E meta \in PipeMetadata :
       \E pipes \in Lists(PipeClasses, MaxPipes) :
          pipesCall = [NoCall EXCEPT !.state = "called", !.value = value,
                                     !.metadata = meta, !.pipes = pipes]
    /\ rescan = NoRescan
    /\ catsService = NewCatsService

NextPipes == ApplyPipesCall

SpecPipes == InitPipes /\ [][NextPipes]_vars

----------------------------------------------------------------------------
(* GuardsConsumer.tryActivate on every list of guards, for every context   *)

\* the longest list of guards given to tryActivate
MaxGuards == 3

\* the demo application's guards, and a guard that answers Promise.resolve(true)
GuardClasses == {"AuthGuard", "RolesGuard", "PromiseGuard"}

\* the requests behind the execution contexts: with and without the token, as admin and
\* as another user
GuardedRequests ==
    {Request("GET", <<"/">>, authorization, role, "") :
        authorization \in {"", "Bearer valid-token"}, role \in {"admin", "user"}}

\* a route whose handler is guarded by guards, and nothing else
GuardedRoute(guards) ==
    [method |-> "get", path |-> <<"/">>, methodName |-> "testHandler",
     controllerClass |-> "CatsController", guards |-> guards, pipes |-> <<>>,
     interceptors |-> <<>>, args |-> <<>>, does |-> ""]

InitGuards ==
    /\ metadata = ScanMetadata(NoList)
    /\ phase = "scan"
    /\ EmptyContainer
    /\ instances = <<>>
    /\ frames = <<>>
    /\ stack = <<>>
    /\ microtasks = <<>>
    /\ \E guards \in Lists(GuardClasses, MaxGuards) : routes = <<GuardedRoute(guards)>>
    /\ customFilters = <<>>
    /\ \E q \in GuardedRequests :
          requests = <<[NewRequest(q) EXCEPT !.pc = "guards", !.route = 1,
                                             !.log = <<Ev("guards", 0)>>]>>
    /\ pipesCall = NoCall
    /\ rescan = NoRescan
    /\ catsService = NewCatsService

NextGuards == Guards

SpecGuards == InitGuards /\ [][NextGuards]_vars

----------------------------------------------------------------------------
(* InterceptorsConsumer.intercept on every list of interceptors, around a  *)
(* handler that returns and around one that throws                         *)

\* the longest list of interceptors given to intercept
MaxInterceptors == 3

\* the demo application's interceptors, one that answers from its cache, one that
\* catches what next.handle() throws and one that ends the response itself
InterceptorClasses ==
    {"LoggingInterceptor", "TransformInterceptor", "cacheInterceptor",
     "errorHandlingInterceptor", "respondingInterceptor"}

\* a route whose handler is wrapped in interceptors, and nothing else
InterceptedRoute(interceptors, does) ==
    [method |-> "get", path |-> <<"/">>, methodName |-> does,
     controllerClass |-> "CatsController", guards |-> <<>>, pipes |-> <<>>,
     interceptors |-> interceptors, args |-> <<>>, does |-> does]

InitIntercept ==
    /\ metadata = ScanMetadata(NoList)
    /\ phase = "scan"
    /\ EmptyContainer
    /\ instances = <<>>
    /\ frames = <<>>
    /\ stack = <<>>
    /\ microtasks = <<>>
    /\ \E interceptors \in Lists(InterceptorClasses, MaxInterceptors),
          does \in {"findAll", "crash", "send", "sendThenFail"} :
          routes = <<InterceptedRoute(interceptors, does)>>
    /\ customFilters = <<>>
    /\ requests = <<[NewRequest(Request("GET", <<"/">>, "", "", ""))
                        EXCEPT !.pc = "interceptors", !.route = 1]>>
    /\ pipesCall = NoCall
    /\ rescan = NoRescan
    /\ catsService = NewCatsService

NextIntercept ==
    \/ Intercept
    \/ NextHandle
    \/ InvokeHandler
    \/ AfterHandle
    \/ Emit
    \/ HandleException

SpecIntercept == InitIntercept /\ [][NextIntercept]_vars

----------------------------------------------------------------------------
(* Dispatch over every short table of routes                               *)

\* the longest table of routes
MaxRoutes == 2

\* the paths of the routes: /cats, /cats/:id, /cats/x and /c.ts
RoutePaths ==
    {<<"/", "c", "a", "t", "s">>, <<"/", "c", "a", "t", "s", "/", ":", "i", "d">>,
     <<"/", "c", "a", "t", "s", "/", "x">>, <<"/", "c", ".", "t", "s">>}

\* this.routes.push({ method, path, ... }): a route whose handler takes @Param('id')
RouteTo(method, path) ==
    [method |-> method, path |-> path, methodName |-> "findOne",
     controllerClass |-> "CatsController", guards |-> <<>>, pipes |-> <<>>,
     interceptors |-> <<>>, args |-> <<Arg(0, "PARAM", <<"i", "d">>)>>, does |-> "findOne"]

RoutesTo ==
    {RouteTo("get", path) : path \in RoutePaths}
        \cup {RouteTo("post", <<"/", "c", "a", "t", "s">>)}

InitDispatch ==
    /\ metadata = ScanMetadata(NoList)
    /\ phase = "listening"
    /\ EmptyContainer
    /\ instances = <<>>
    /\ frames = <<>>
    /\ stack = <<>>
    /\ microtasks = <<>>
    /\ \E table \in Lists(RoutesTo, MaxRoutes) :
          /\ NoRepeat(table)
          /\ routes = table
    /\ customFilters = <<>>
    /\ requests = <<>>
    /\ pipesCall = NoCall
    /\ rescan = NoRescan
    /\ catsService = NewCatsService

NextDispatch ==
    \/ HandleRequest
    \/ Guards
    \/ ParseBody
    \/ ResolveParamsOnly

SpecDispatch == InitDispatch /\ [][NextDispatch]_vars

----------------------------------------------------------------------------
(* The transform stage over every list of pipes and several lists of       *)
(* parameter decorators                                                    *)

\* ROUTE_ARGS_METADATA of the handler: @Param('id'); @Param('id') with @Res(); @Req() with
\* @Query('n') two positions further; @Body() with @Headers('authorization')
DecoratedArgs ==
    {<<Arg(0, "PARAM", <<"i", "d">>)>>,
     <<Arg(0, "PARAM", <<"i", "d">>), Arg(1, "RESPONSE", <<>>)>>,
     <<Arg(0, "REQUEST", <<>>), Arg(2, "QUERY", <<"n">>)>>,
     <<Arg(0, "BODY", <<>>), Arg(1, "HEADERS", <<"authorization">>)>>}

\* a route whose handler has the parameter decorators args and the pipes pipes
PipedRoute(pipes, args) ==
    [method |-> "get", path |-> <<"/", "c", "a", "t", "s", "/", ":", "i", "d">>,
     methodName |-> "findOne", controllerClass |-> "CatsController", guards |-> <<>>,
     pipes |-> pipes, interceptors |-> <<>>, args |-> args, does |-> "findOne"]

PipedRequests ==
    {Request("GET", <<"/", "c", "a", "t", "s", "/", "1", "?", "n", "=", "7">>,
             "Bearer valid-token", "", "{\"name\":\"Tom\"}"),
     Request("GET", <<"/", "c", "a", "t", "s", "/", "x">>, "", "", "")}

InitTransform ==
    /\ metadata = ScanMetadata(NoList)
    /\ phase = "scan"
    /\ EmptyContainer
    /\ instances = <<>>
    /\ frames = <<>>
    /\ stack = <<>>
    /\ microtasks = <<>>
    /\ \E pipes \in Lists(PipeClasses, MaxPipes), args \in DecoratedArgs :
          routes = <<PipedRoute(pipes, args)>>
    /\ customFilters = <<>>
    /\ \E q \in PipedRequests :
          requests = <<[NewRequest(q) EXCEPT !.pc = "body", !.route = 1]>>
    /\ pipesCall = NoCall
    /\ rescan = NoRescan
    /\ catsService = NewCatsService

NextTransform ==
    \/ ParseBody
    \/ ResolveParams
    \/ ApplyPipesToArgs
    \/ Intercept
    \/ InvokeHandler
    \/ Emit
    \/ HandleException

SpecTransform == InitTransform /\ [][NextTransform]_vars

----------------------------------------------------------------------------
(* A CatsService given every sequence of create and remove                 *)

InitCats ==
    /\ metadata = ScanMetadata(NoList)
    /\ phase = "scan"
    /\ EmptyContainer
    /\ NotStarted

NextCats == Create \/ Remove

SpecCats == InitCats /\ [][NextCats]_vars

----------------------------------------------------------------------------
(* An ExceptionsHandler given every list of filters, handling every thrown *)
(* value                                                                   *)

\* the longest list of filters given to setCustomFilters
MaxFilters == 3

FilterClasses == {"HttpExceptionFilter", "AllExceptionsFilter"}

\* what a stage may throw: HTTP exceptions made from a string or from an object, plain
\* Errors that differ by their message only, and a value that is no Error at all
ThrownValues ==
    {Exception("ForbiddenException", 403, <<"Forbidden resource">>),
     Exception("BadRequestException", 400, <<"name is empty">>),
     Exception("NotFoundException", 404, <<"no such cat">>),
     ObjectException("BadRequestException", 400, 0, <<"Invalid data">>),
     ObjectException("BadRequestException", 400, 422, <<"Invalid data">>),
     Exception("Error", 0, <<"boom">>),
     Exception("Error", 0, <<"connect ECONNREFUSED db:5432">>),
     Exception("String", 0, <<"oops">>)}

\* the request of a handler that has just caught exception
Caught(exception) ==
    [NewRequest(Request("GET", <<"/">>, "", "", "")) EXCEPT
        !.pc = "catch", !.error = exception, !.log = <<Ev("handler", 0)>>]

\* exceptionsHandler.setCustomFilters(filters)
SetCustomFilters ==
    /\ phase = "scan"
    /\ customFilters = <<>>
    /\ \E r \in 1..Len(requests) : At(r, "catch")
    /\ \E filters \in Lists(FilterClasses, MaxFilters) : customFilters' = filters
    /\ UNCHANGED <<metadata, phase, scanVars, injectVars, routes, requests, pipesCall, rescan, catsService>>

InitFilters ==
    /\ metadata = ScanMetadata(NoList)
    /\ phase = "scan"
    /\ EmptyContainer
    /\ instances = <<>>
    /\ frames = <<>>
    /\ stack = <<>>
    /\ microtasks = <<>>
    /\ routes = <<>>
    /\ customFilters = <<>>
    /\ \E exception \in ThrownValues : requests = <<Caught(exception)>>
    /\ pipesCall = NoCall
    /\ rescan = NoRescan
    /\ catsService = NewCatsService

NextFilters ==
    \/ SetCustomFilters
    \/ HandleException

SpecFilters == InitFilters /\ [][NextFilters]_vars

----------------------------------------------------------------------------
\* ... up to the dispatch of the first requests by the application created
NextBootstrap ==
    \/ NextBoot
    \/ Explore
    \/ Listen
    \/ HandleRequest

SpecBootstrap == InitInject /\ [][NextBootstrap]_vars

----------------------------------------------------------------------------
(* The application: AppModule (AppService, DogsController) imports ModuleA *)
(* (UserService, CatsController), which imports SharedModule (exports      *)
(* SharedService).  The controllers are decorated as the demo application's*)

ApplicationMetadata(dogsNeeds, dogsFilters, createGuards) ==
    [imports |-> [NoList EXCEPT !["AppModule"] = <<"ModuleA">>,
                                !["ModuleA"] = <<"SharedModule">>],
     providers |-> [NoList EXCEPT !["AppModule"] = <<"AppService">>,
                                  !["ModuleA"] = <<"UserService">>,
                                  !["SharedModule"] = <<"SharedService">>],
     controllers |-> [NoList EXCEPT !["AppModule"] = <<"DogsController">>,
                                    !["ModuleA"] = <<"CatsController">>],
     exports |-> [NoList EXCEPT !["SharedModule"] = <<"SharedService">>],
     paramtypes |-> [NoParams EXCEPT !["AppService"] = <<"SharedService">>,
                                     !["UserService"] = <<"SharedService">>,
                                     !["CatsController"] = <<"UserService">>,
                                     !["DogsController"] = dogsNeeds],
     controller |-> [CatsController |-> CatsController(createGuards),
                     DogsController |-> DogsController(dogsFilters)]]

Init ==
    /\ \E dogsNeeds \in {<<"AppService">>, <<"AppService", "UserService">>} :
       \E dogsFilters \in {<<>>, <<"AllExceptionsFilter">>} :
       \E createGuards \in {<<"AuthGuard">>, <<"RolesGuard", "AuthGuard">>} :
          metadata = ApplicationMetadata(dogsNeeds, dogsFilters, createGuards)
    /\ phase = "scan"
    /\ EmptyContainer
    /\ NotStarted

Next ==
    \/ NextScan
    \/ NextInject
    \/ Explore
    \/ Listen
    \/ NextRequest

Spec == Init /\ [][Next]_vars

----------------------------------------------------------------------------
(* The application with every prefix on DogsController and every sub-path  *)
(* on its method                                                           *)

\* the longest prefix and the longest sub-path, in characters
MaxPath == 4

\* the characters of the paths: the separator and a letter
PathChars == {"/", "a"}

\* @Get(path): Reflect.defineMetadata(PATH_METADATA, path || '/', descriptor.value)
RequestMapping(path) == IF path = <<>> THEN <<"/">> ELSE path

PathMetadata(prefix, path) ==
    [ApplicationMetadata(<<"AppService">>, <<>>, <<"AuthGuard">>) EXCEPT
        !.controller["DogsController"] =
            ControllerMetadata(prefix, <<"RolesGuard">>, <<>>, <<>>, <<>>,
                <<Method("crash", TRUE, "get", RequestMapping(path), <<>>, <<>>,
                         <<"LoggingInterceptor", "TransformInterceptor">>, <<>>, <<>>,
                         "crash")>>)]

InitPaths ==
    /\ \E prefix, path \in Lists(PathChars, MaxPath) : metadata = PathMetadata(prefix, path)
    /\ phase = "scan"
    /\ EmptyContainer
    /\ NotStarted

NextPaths ==
    \/ NextScan
    \/ NextInject
    \/ Explore
    \/ Listen

SpecPaths == InitPaths /\ [][NextPaths]_vars

----------------------------------------------------------------------------
(* The application with every decoration of CatsController and of its      *)
(* method create by guards, pipes, interceptors and filters                *)

\* the largest number of classes the decorators of the controller and the method name
MaxDeclared == 2

InterceptorsOfDemo == {"LoggingInterceptor", "TransformInterceptor"}

DecoratedMetadata(c, h) ==
    [ApplicationMetadata(<<"AppService">>, <<>>, <<"AuthGuard">>) EXCEPT
        !.controller["CatsController"] =
            ControllerMetadata(<<"c", "a", "t", "s">>, c[1], c[2], c[3], c[4],
                <<Method("create", TRUE, "post", <<"/">>, h[1], h[2], h[3], h[4],
                         <<Arg(0, "BODY", <<>>)>>, "create")>>)]

InitDecorated ==
    /\ \E cg \in Lists({"AuthGuard", "RolesGuard"}, MaxDeclared) :
       \E hg \in Lists({"AuthGuard", "RolesGuard"}, MaxDeclared - Len(cg)) :
       \E cp \in Lists({"ValidationPipe", "ParseIntPipe"}, MaxDeclared - Len(cg \o hg)) :
       \E hp \in Lists({"ValidationPipe", "ParseIntPipe"},
                        MaxDeclared - Len(cg \o hg \o cp)) :
       \E ci \in Lists(InterceptorsOfDemo, MaxDeclared - Len(cg \o hg \o cp \o hp)) :
       \E hi \in Lists(InterceptorsOfDemo, MaxDeclared - Len(cg \o hg \o cp \o hp \o ci)) :
       \E cf \in Lists(FilterClasses, MaxDeclared - Len(cg \o hg \o cp \o hp \o ci \o hi)) :
       \E hf \in Lists(FilterClasses,
                        MaxDeclared - Len(cg \o hg \o cp \o hp \o ci \o hi \o cf)) :
          metadata = DecoratedMetadata(<<cg, cp, ci, cf>>, <<hg, hp, hi, hf>>)
    /\ phase = "scan"
    /\ EmptyContainer
    /\ NotStarted

SpecDecorated == InitDecorated /\ [][NextPaths]_vars

\* the catch clause of a handler is the continuation of the await that was rejected, a
\* promise job: the event loop runs it once it is ready
SpecLive == Spec /\ WF_vars(HandleException)

----------------------------------------------------------------------------
(* Claims                                                                  *)

ConstructionsOf(w) == {k \in 1..Len(instances) : instances[k].wrapper = w}

\* C1: during bootstrap each binding's component is constructed at most once, and a
\* binding that holds an instance keeps that very instance (the first one constructed)
C1_ConstructedOnceNeverReplaced ==
    \A w \in WrapperKeys :
        /\ Cardinality(ConstructionsOf(w)) <= 1
        /\ wrappers[w].instance # 0 => ConstructionsOf(w) = {wrappers[w].instance}

----------------------------------------------------------------------------
(* The scan                                                                *)

ScanDone == phase \notin {"scan", "scanForModules", "scanDependencies"}

Count(s, x) == Cardinality({k \in 1..Len(s) : s[k] = x})

DeclaredImports == metadata.imports

\* C8: after scan(root) every module reachable from the root over the declared imports is
\* registered exactly once, and no other module is registered
C8_ReachableRegisteredOnce ==
    ScanDone =>
        \A m \in Modules :
            Count(modules, m) =
                IF m \in ReachableFrom(DeclaredImports, {RootModule}) THEN 1 ELSE 0

OnImportCycle(m) == m \in ReachableFrom(DeclaredImports, SeqToSet(DeclaredImports[m]))

\* a scanned graph in which a module is imported by two modules and lies on an import cycle
C8_SharedImportOnCycleScanned ==
    /\ ScanDone
    /\ \E m \in Modules \ {RootModule} :
          /\ OnImportCycle(m)
          /\ \E a, b \in SeqToSet(modules) :
                a # b /\ Contains(DeclaredImports[a], m) /\ Contains(DeclaredImports[b], m)
          /\ Count(modules, m) = 1

RECURSIVE Visit(_, _, _)
RECURSIVE VisitAll(_, _, _)
\* the depth-first traversal of the declared imports, in declared order: st.seen are the
\* modules visited so far, st.depth the length of the import chain at their first visit
Visit(m, d, st) ==
    IF m \in st.seen THEN st
    ELSE VisitAll(DeclaredImports[m], d + 1,
                  [seen |-> st.seen \cup {m}, depth |-> [st.depth EXCEPT ![m] = d]])

VisitAll(ms, d, st) ==
    IF ms = <<>> THEN st ELSE VisitAll(Tail(ms), d, Visit(Head(ms), d, st))

FirstVisit == Visit(RootModule, 0, [seen |-> {}, depth |-> [m \in Modules |-> 0]])

\* C9: after the scan each registered module's distance is the length of the import chain
\* along which the depth-first traversal first visited it; the root's distance is 0
C9_DistanceIsFirstVisitDepth ==
    ScanDone =>
        /\ distance[RootModule] = 0
        /\ \A m \in SeqToSet(modules) : distance[m] = FirstVisit.depth[m]

RECURSIVE Within(_)
\* the modules some import chain of at most k imports reaches from the root
Within(k) ==
    IF k = 0 THEN {RootModule}
    ELSE Within(k - 1) \cup UNION {SeqToSet(DeclaredImports[m]) : m \in Within(k - 1)}

\* a scanned graph in which a module's distance exceeds its shortest import chain
C9_DistanceNotShortestScanned ==
    /\ ScanDone
    /\ \E m \in SeqToSet(modules) : \E k \in 0..Cardinality(Modules) :
          m \in Within(k) /\ distance[m] > k

----------------------------------------------------------------------------
(* The request pipeline                                                    *)

Served == 1..Len(requests)

Matched(r) == requests[r].route # 0

Logged(r, e) == \E i \in 1..Len(requests[r].log) : requests[r].log[i].e = e

\* the method of the controller a route was made from
HandlerOf(route) ==
    LET hs == metadata.controller[route.controllerClass].methods
    IN hs[CHOOSE k \in 1..Len(hs) : hs[k].name = route.methodName]

\* the filters attached to a route's controller, then those attached to its handler
AttachedFilters(route) ==
    metadata.controller[route.controllerClass].filters \o HandlerOf(route).filters

Failed(r) == requests[r].pc = "done" /\ Logged(r, "catch")

\* C2: an error raised for a request matched to route R is offered to exactly the filters
\* attached to R's controller and R's handler, controller-level first, whatever other
\* routes are registered
C2_ErrorOfferedToRouteFilters ==
    \A r \in Served :
        Failed(r) => requests[r].offered = AttachedFilters(RouteOf(r))

\* the guard evaluations of request r that denied
Denials(r) ==
    {i \in 1..Len(requests[r].log) :
        /\ requests[r].log[i].e = "guard"
        /\ ~CanActivate(RouteOf(r).guards[requests[r].log[i].k], requests[r])}

AfterGuards == {"body", "params", "pipes", "pipe", "interceptors", "before", "handler",
                "after", "emit"}

\* C3: once a guard of the matched route has denied, the request fails with Forbidden (403)
\* and neither the body, nor the arguments, nor a transform, an interceptor or the handler
\* has run or runs for it; no further guard runs either
C3_DenialAbortsBeforeBody ==
    \A r \in Served :
        Matched(r) /\ Denials(r) # {} =>
            /\ requests[r].error.class = "ForbiddenException"
            /\ requests[r].error.status = 403
            /\ requests[r].pc \in {"catch", "done"}
            /\ requests[r].parsed = Undef
            /\ \A e \in AfterGuards : ~Logged(r, e)
            /\ \A i \in Denials(r) : \A j \in 1..Len(requests[r].log) :
                   j > i => requests[r].log[j].e = "catch"
            /\ requests[r].pc = "done" => requests[r].res.statusCode = 403

\* a request with a body that a guard denied after another guard allowed, answered 403
C3_DeniedBySecondGuard ==
    \E r \in Served :
        /\ Matched(r)
        /\ requests[r].pc = "done"
        /\ requests[r].body # ""
        /\ \E i \in Denials(r) : requests[r].log[i].k = 2
        /\ requests[r].res.statusCode = 403

\* the stage an event of the log belongs to
Stage(e) ==
    CASE e \in {"guards", "guard"} -> 1
      [] e = "body" -> 2
      [] e = "params" -> 3
      [] e \in {"pipes", "pipe"} -> 4
      [] e \in {"interceptors", "before", "handler", "after"} -> 5
      [] e = "emit" -> 6
      [] OTHER -> 7

\* the events that mark the entry of the six stages, in pipeline order
StageEntries == <<"guards", "body", "params", "pipes", "interceptors", "emit">>

Entries(r, e) == {i \in 1..Len(requests[r].log) : requests[r].log[i].e = e}

IsOnionEvent(ev) == ev.e \in {"before", "handler", "after"}

\* I1-before, ..., In-before, handler, In-after, ..., I1-after
Onion(n) ==
    [k \in 1..(2 * n + 1) |->
        IF k <= n THEN Ev("before", k)
        ELSE IF k = n + 1 THEN Ev("handler", 0)
        ELSE Ev("after", 2 * n + 2 - k)]

IsPrefix(s, t) == Len(s) <= Len(t) /\ s = SubSeq(t, 1, Len(s))

\* C5: the interceptors [I1..In] of a route, each of which continues once, and the handler
\* run onion-ordered: at any time what has run of them is the beginning of I1-before, ...,
\* In-before, handler, In-after, ..., I1-after, and all of it once the result is emitted
C5_InterceptorsOnionOrdered ==
    \A r \in Served :
        Matched(r) =>
            LET ran == SelectSeq(requests[r].log, IsOnionEvent)
                n == Len(RouteOf(r).interceptors)
            IN /\ IsPrefix(ran, Onion(n))
               /\ Logged(r, "emit") => ran = Onion(n)

\* a request served through two interceptors around the handler
C5_TwoInterceptorsServed ==
    \E r \in Served :
        /\ requests[r].pc = "done"
        /\ requests[r].res.by = "emit"
        /\ Len(RouteOf(r).interceptors) = 2
        /\ requests[r].res.data = <<"success", "cats">>

Unrouted(r) ==
    \A k \in 1..Len(routes) :
        ~RouteMatches(routes[k], ToLowerCase(requests[r].method), Pathname(requests[r].url))

\* C7: a request whose method and path match no route is answered at once with status 404
\* and a body of statusCode and message, and no guard, transform, interceptor, handler or
\* filter runs for it
C7_UnmatchedAnswered404 ==
    \A r \in Served :
        Unrouted(r) =>
            /\ requests[r].pc = "done"
            /\ requests[r].res.ended
            /\ requests[r].res.statusCode = 404
            /\ requests[r].res.fields = {"statusCode", "message"}
            /\ requests[r].res.by = "notFound"
            /\ requests[r].log = <<Ev("notFound", 0)>>
            /\ requests[r].offered = <<>>
            /\ requests[r].error = NoError

\* a request for a registered path with a method no route has, and one for an unknown path
C7_UnknownMethodAndPath404 ==
    \E r, o \in Served :
        /\ Unrouted(r)
        /\ Unrouted(o)
        /\ \E k \in 1..Len(routes) : Test(routes[k].path, Pathname(requests[r].url))
        /\ \A k \in 1..Len(routes) : ~Test(routes[k].path, Pathname(requests[o].url))
        /\ requests[r].res.statusCode = 404
        /\ requests[o].res.statusCode = 404

----------------------------------------------------------------------------
(* The bootstrap                                                           *)

Bindings ==
    {w \in WrapperKeys :
        /\ HasModule(w[1])
        /\ Contains(modProviders[w[1]], w[2]) \/ Contains(modControllers[w[1]], w[2])}

Resolved(w) == wrappers[w].isResolved /\ wrappers[w].instance \in 1..Len(instances)

\* C10: once MiniNestFactory.create has returned the application, every provider and
\* controller binding of every registered module is resolved and holds an instance; routes
\* are registered and requests are served only then
C10_BootstrapResolvesEveryBinding ==
    /\ phase \in {"created", "listening"} => \A w \in Bindings : Resolved(w)
    /\ routes # <<>> \/ requests # <<>> => \A w \in Bindings : Resolved(w)
    /\ requests # <<>> => phase = "listening"

\* a request is dispatched to a route of an application of four providers and a controller
C10_DispatchedWithEveryBindingResolved ==
    /\ phase = "listening"
    /\ \E r \in Served : Matched(r)
    /\ Cardinality(Bindings) >= 5
    /\ \A w \in Bindings : Resolved(w)

----------------------------------------------------------------------------
(* Visibility                                                              *)

Imports(m, b) == Contains(DeclaredImports[m], b)

\* the arguments the component of binding w was constructed with
ArgsOf(w) == instances[wrappers[w].instance].args

ListsToken(m) == Contains(metadata.exports[m], "SharedService")

SharedModuleInReach ==
    \/ Imports("AppModule", "SharedModule")
    \/ \E a \in Modules : Imports("AppModule", a) /\ Imports(a, "SharedModule")

Injected == phase \in {"instantiated", "failed"}

\* AppService was constructed with the SharedService of module b
ResolvedFrom(b) ==
    /\ phase = "instantiated"
    /\ Resolved(<<b, "SharedService">>)
    /\ Resolved(<<"AppModule", "AppService">>)
    /\ ArgsOf(<<"AppModule", "AppService">>) = <<wrappers[<<b, "SharedService">>].instance>>

----------------------------------------------------------------------------
(* createInstances                                                         *)

ProviderBindings == {w \in Bindings : Contains(modProviders[w[1]], w[2])}

ControllerBindings == {w \in Bindings : Contains(modControllers[w[1]], w[2])}

\* the frames of the calls createInstances is making right now
CalledByCreateInstances ==
    IF Len(stack) = 2 /\ stack[1] = 1 /\ frames[stack[2]].pc = "start"
    THEN {stack[2]} ELSE {}

----------------------------------------------------------------------------
(* loadProvider                                                            *)

\* the invocations of the async function fn for binding w
CallsOf(fn, w) == {f \in DOMAIN frames : frames[f].fn = fn /\ frames[f].wrapper = w}

NoDependencies(w) == ReflectParamTypes(w[2]) = <<>>

\* C12: for a provider binding without declared dependencies no invocation of loadProvider
\* fails, the component is constructed at most once however many invocations there are, and
\* exactly once when one of them has returned; the binding then holds that instance
C12_LoadProviderIdempotent ==
    \A w \in ProviderBindings :
        NoDependencies(w) =>
            /\ \A f \in CallsOf("loadProvider", w) : frames[f].state # "rejected"
            /\ Cardinality(ConstructionsOf(w)) <= 1
            /\ \A f \in CallsOf("loadProvider", w) :
                  frames[f].state = "fulfilled" =>
                      /\ Cardinality(ConstructionsOf(w)) = 1
                      /\ ConstructionsOf(w) = {wrappers[w].instance}

----------------------------------------------------------------------------
(* Dependency resolution                                                   *)

RECURSIVE LookupIn(_, _)
\* what lookupComponentInImports finds for a token among the imported modules ms, in order:
\* the binding, or <<>>
LookupIn(ms, token) ==
    IF ms = <<>> THEN <<>>
    ELSE LET relatedModule == Head(ms) IN
         IF ~Contains(modExports[relatedModule], token)
         THEN LET found == LookupIn(modImports[relatedModule], token)
              IN IF found # <<>> THEN found ELSE LookupIn(Tail(ms), token)
         ELSE IF Contains(modProviders[relatedModule], token)
              THEN <<relatedModule, token>>
              ELSE LookupIn(Tail(ms), token)

\* the binding resolveSingleParam takes for a token needed in module m: the module's own
\* provider, or what the search through its imports finds
Yielded(m, token) ==
    IF Contains(modProviders[m], token) THEN <<m, token>> ELSE LookupIn(modImports[m], token)

\* the bindings the declared dependencies of binding w resolve to
Needs(w) ==
    {Yielded(w[1], ReflectParamTypes(w[2])[i]) : i \in 1..Len(ReflectParamTypes(w[2]))}
        \ {<<>>}

RECURSIVE Closure(_)
Closure(ws) ==
    LET more == ws \cup UNION {Needs(w) : w \in ws}
    IN IF more = ws THEN ws ELSE Closure(more)

\* construction k got, at each position, the instance of the binding its declared token
\* resolves to, constructed before it
WellConstructed(k) ==
    LET w == instances[k].wrapper
        deps == ReflectParamTypes(w[2])
        args == instances[k].args
    IN /\ Len(args) = Len(deps)
       /\ \A i \in 1..Len(deps) :
             LET d == Yielded(w[1], deps[i])
             IN /\ d # <<>>
                /\ args[i] \in ConstructionsOf(d)
                /\ args[i] < k
                /\ args[i] = wrappers[d].instance

----------------------------------------------------------------------------
(* PipesConsumer.applyPipes                                                *)

RECURSIVE Chained(_, _, _)
\* pn(...p1(value)...), every pipe handed the metadata meta: the outcome of the last pipe on
\* the value the pipes before it produce, or the failure of the first pipe that throws
Chained(value, meta, pipes) ==
    IF pipes = <<>> THEN Returned(value)
    ELSE LET before == Chained(value, meta, SubSeq(pipes, 1, Len(pipes) - 1))
         IN IF before.ok THEN Transform(pipes[Len(pipes)], before.value, meta) ELSE before

\* C14: applyPipes(value, metadata, [p1..pn]) returns pn(...p1(value)...), each pipe
\* handed the same metadata, or throws what the first failing pipe throws; for an empty
\* list it returns the value unchanged
C14_PipesChainedInOrder ==
    pipesCall.state = "returned" =>
        /\ pipesCall.result
              = Chained(pipesCall.value, pipesCall.metadata, pipesCall.pipes)
        /\ pipesCall.pipes = <<>> => pipesCall.result = Returned(pipesCall.value)

\* a missing value was given its default and then parsed: the order of the pipes matters
C14_DefaultThenParsed ==
    /\ pipesCall.state = "returned"
    /\ pipesCall.value = Undef
    /\ pipesCall.pipes = <<"DefaultValuePipe", "ParseIntPipe", "ValidationPipe">>
    /\ pipesCall.result = Returned(<<"number", "0">>)

----------------------------------------------------------------------------
(* Failures in the request pipeline                                        *)

Events(r) == {requests[r].log[i].e : i \in 1..Len(requests[r].log)}

Occurrences(r, e) == Cardinality({i \in 1..Len(requests[r].log) : requests[r].log[i].e = e})

\* a stage of request r threw
Threw(r) == requests[r].error # NoError

\* the stage of request r that threw: the last thing that ran inside the try block
FailedStage(r) ==
    LET tried == SelectSeq(requests[r].log, LAMBDA ev : ev.e \notin {"catch", "rethrow", "end"})
    IN tried[Len(tried)].e

\* what the handler does after a stage when that stage succeeds
StagesAfter(e) ==
    CASE e = "guard" -> {"body", "params", "pipes", "pipe", "interceptors", "before", "handler",
                         "after", "emit"}
      [] e = "pipe" -> {"interceptors", "before", "handler", "after", "emit"}
      [] e = "handler" -> {"after", "emit"}
      [] OTHER -> {}

----------------------------------------------------------------------------
(* ExceptionsHandler.handle                                                *)

\* filter k of the list declares no type, or a type the exception is an instance of
Matches(filters, k, exception) ==
    \/ CatchTypes(filters[k]) = <<>>
    \/ \E i \in 1..Len(CatchTypes(filters[k])) : InstanceOf(exception, CatchTypes(filters[k])[i])

\* C16: the response to a caught error is what one filter wrote, the first of the list
\* that declares no type or a type the error is an instance of, whatever filters follow
\* it; the default handler writes it only when no filter of the list matches
C16_FirstMatchingFilterOnly ==
    \A r \in 1..Len(requests) :
        requests[r].pc = "done" /\ Threw(r) =>
            LET filters == requests[r].offered
                exception == requests[r].error
                matching == {k \in 1..Len(filters) : Matches(filters, k, exception)}
            IN /\ matching # {} =>
                     \E k \in matching :
                        /\ \A j \in matching : k <= j
                        /\ requests[r].res = Catch(filters[k], exception, NoResponse)
                        /\ requests[r].res.by = filters[k]
               /\ matching = {} <=> requests[r].res.by = "handleDefault"

\* a plain Error met a list whose first filter catches HTTP errors only and whose second
\* catches everything: the second answered, and the third, which follows it, did not
C16_SecondOfThreeAnswered ==
    \E r \in 1..Len(requests) :
        /\ requests[r].pc = "done"
        /\ requests[r].error = Exception("Error", 0, <<"boom">>)
        /\ requests[r].offered
              = <<"HttpExceptionFilter", "AllExceptionsFilter", "HttpExceptionFilter">>
        /\ requests[r].res.by = "AllExceptionsFilter"

----------------------------------------------------------------------------
(* ExceptionsHandler.handleDefault                                         *)

\* request r was answered by the default handler
ByDefault(r) ==
    requests[r].pc = "done" /\ Threw(r) /\ requests[r].res.by = "handleDefault"

\* C17: an error that is no HTTP exception and that no filter catches is answered 500 with
\* a body that does not depend on its message: any error of the same kind with another
\* message gets the same response
C17_DefaultBodyHidesMessage ==
    \A r \in 1..Len(requests) :
        ByDefault(r) /\ ~InstanceOf(requests[r].error, "HttpException") =>
            /\ requests[r].res.statusCode = 500
            /\ \A other \in ThrownValues :
                  other.class = requests[r].error.class =>
                      HandleDefault(other, NoResponse) = requests[r].res

\* C18: an HTTP exception that no filter catches is answered with the status its class
\* declares, in a body whose statusCode is that status and which carries the message the
\* exception was constructed with
C18_DefaultKeepsDeclaredStatus ==
    \A r \in 1..Len(requests) :
        ByDefault(r) /\ InstanceOf(requests[r].error, "HttpException") =>
            /\ requests[r].res.statusCode = DeclaredStatus(requests[r].error.class)
            /\ requests[r].res.statusCode \in {400, 403, 404}
            /\ "statusCode" \in requests[r].res.fields
            /\ requests[r].res.bodyStatus = requests[r].res.statusCode
            /\ requests[r].res.message
                  = (IF requests[r].error.response.isObject
                     THEN requests[r].error.response.message ELSE requests[r].error.message)

----------------------------------------------------------------------------
(* Recovery of the failures of a request                                   *)

\* request r has its response from a filter or from the default handler
Recovered(r) ==
    /\ requests[r].pc = "done"
    /\ requests[r].res.ended
    /\ requests[r].res.by \in FilterClasses \cup {"handleDefault"}
    /\ Logged(r, "catch")

----------------------------------------------------------------------------
(* Dependencies that cannot be resolved                                    *)

\* frame f is a resolveSingleParam that found its token nowhere and threw
Unresolvable(f) ==
    /\ frames[f].fn = "resolveSingleParam"
    /\ frames[f].state = "rejected"
    /\ frames[f].token # Undefined
    /\ Yielded(frames[f].moduleRef, frames[f].token) = <<>>
    /\ frames[f].error.kind # "RangeError"

\* C20: when a token needed by a component is no provider of its module and is not found
\* through the imports, the error thrown names the component, the position of the
\* parameter and the token, and the component is neither constructed nor resolved
C20_UnresolvedDependencyNamed ==
    \A f \in 1..Len(frames) :
        Unresolvable(f) =>
            /\ frames[f].error.kind = "unresolved dependency"
            /\ frames[f].error.token = frames[f].token
            /\ frames[f].error.component = frames[f].wrapper[2]
            /\ frames[f].error.index = frames[f].index
            /\ ~wrappers[frames[f].wrapper].isResolved
            /\ \A i \in 1..Len(instances) : instances[i].wrapper # frames[f].wrapper

----------------------------------------------------------------------------
(* Providers that need one another in a circle                             *)

\* C21: when providers need one another in a circle, bootstrap ends, and ends with a
\* circular-dependency error; no component on the circle is constructed
C21_CycleDetected ==
    Injected /\ (\E c \in Providers : OnCycle(c)) =>
        /\ phase = "failed"
        /\ frames[1].error.kind = "circular dependency"
        /\ \A c \in Providers : \A k \in 1..Len(instances) :
              OnCycle(c) => instances[k].wrapper[2] # c

----------------------------------------------------------------------------
(* A second scan                                                           *)

\* the second scan has returned
Rescanned == rescan.called /\ phase = rescan.at

\* C22: once a second scan of the same root has returned, the modules, their distances,
\* imports, exports and bindings, with each binding's resolution state and instance, are
\* what they were when it was called
C22_ScanIdempotent ==
    Rescanned => Container = rescan.before

----------------------------------------------------------------------------
(* GuardsConsumer.tryActivate                                              *)

\* the guards evaluated for request r so far, by their position in the list, in the order
\* of their evaluation
Evaluated(r) ==
    LET evs == SelectSeq(requests[r].log, LAMBDA ev : ev.e = "guard")
    IN [i \in 1..Len(evs) |-> evs[i].k]

\* the positions of the guards of r's route that deny r
Denying(r) ==
    {k \in 1..Len(RouteOf(r).guards) : ~CanActivate(RouteOf(r).guards[k], requests[r])}

\* C23: the guards are evaluated one after the other from the first; when tryActivate is
\* over, it has evaluated the guards up to the first that denies and thrown Forbidden, or,
\* when none denies (an empty list included), all of them, and let the request pass
C23_GuardsInOrderUntilDenial ==
    \A r \in 1..Len(requests) :
        requests[r].route # 0 =>
            LET n == Len(RouteOf(r).guards)
                last == IF Denying(r) = {} THEN n
                        ELSE CHOOSE k \in Denying(r) : \A j \in Denying(r) : k <= j
            IN /\ Len(Evaluated(r)) <= last
               /\ \A i \in 1..Len(Evaluated(r)) : Evaluated(r)[i] = i
               /\ requests[r].pc # "guards" =>
                     /\ Len(Evaluated(r)) = last
                     /\ Denying(r) # {} <=>
                           /\ Threw(r)
                           /\ FailedStage(r) = "guard"
                           /\ requests[r].error.class = "ForbiddenException"
                     /\ Denying(r) = {} <=> (~Threw(r) \/ FailedStage(r) # "guard")

\* of three guards the first allowed and the second denied: the third, which would have
\* allowed, was not evaluated
C23_ThirdGuardNotEvaluated ==
    \E r \in 1..Len(requests) :
        /\ requests[r].route # 0
        /\ RouteOf(r).guards = <<"AuthGuard", "RolesGuard", "PromiseGuard">>
        /\ requests[r].pc = "catch"
        /\ Evaluated(r) = <<1, 2>>
        /\ Denying(r) = {2}

----------------------------------------------------------------------------
(* Interceptors that do not call the handler, or catch what it throws      *)

RECURSIVE Rewrapped(_, _, _)
\* value as it comes out of the interceptors at positions n, n - 1, ..., 1 that awaited
\* next.handle()
Rewrapped(interceptors, n, value) ==
    IF n = 0 THEN value
    ELSE Rewrapped(interceptors, n - 1, Intercepted(interceptors[n], value))

\* the positions of the interceptors of r's route that return without next.handle()
Skipping(r) ==
    {k \in 1..Len(RouteOf(r).interceptors) : ShortCircuits(RouteOf(r).interceptors[k])}

\* the outermost interceptor of r's route that returns without next.handle()
FirstSkipping(r) == CHOOSE k \in Skipping(r) : \A other \in Skipping(r) : k <= other

\* C24: when an interceptor of the route returns without continuing, no interceptor
\* inside it is entered and the controller method is not called; the pipeline's result,
\* and what is emitted, is its value as rewrapped by the interceptors outside it
C24_ShortCircuitSkipsInner ==
    \A r \in 1..Len(requests) :
        (requests[r].route # 0 /\ Skipping(r) # {}) =>
            LET s == FirstSkipping(r)
                value == Rewrapped(RouteOf(r).interceptors, s - 1, <<"cached">>)
            IN /\ \A i \in 1..Len(requests[r].log) :
                     LET ev == requests[r].log[i]
                     IN /\ ev.e # "handler"
                        /\ ev.e = "before" => ev.k <= s
               /\ ~Logged(r, "catch")
               /\ requests[r].pc \in {"emit", "done"} => requests[r].result = value
               /\ (requests[r].pc = "done" /\ ~Logged(r, "end")) =>
                     /\ requests[r].res.by = "emit"
                     /\ requests[r].res.data = value

\* the second of three interceptors answered from its cache: the third and the handler
\* did not run, and the first wrapped the cached value
C24_CachedInsideTransform ==
    \E r \in 1..Len(requests) :
        /\ requests[r].route # 0
        /\ RouteOf(r).interceptors =
              <<"TransformInterceptor", "cacheInterceptor", "LoggingInterceptor">>
        /\ requests[r].pc = "done"
        /\ requests[r].res.data = <<"success", "cached">>
        /\ ~Logged(r, "handler")

\* the positions of the interceptors of r's route that catch what next.handle() throws
Catching(r) ==
    {k \in 1..Len(RouteOf(r).interceptors) : Catches(RouteOf(r).interceptors[k])}

\* the innermost interceptor of r's route that catches, 0 when none does
InnermostCatching(r) ==
    IF Catching(r) = {} THEN 0
    ELSE CHOOSE k \in Catching(r) : \A other \in Catching(r) : other <= k

\* the interceptors the handler's failure passed through, in the order it reached them
Passed(r) ==
    LET evs == SelectSeq(requests[r].log, LAMBDA ev : ev.e = "rethrow")
    IN [i \in 1..Len(evs) |-> evs[i].k]

\* C25: when the controller method has thrown, its failure passes the interceptors from
\* the innermost outwards up to the first that catches it; when one catches it, the
\* exceptions handler is not invoked and the value that interceptor returns, rewrapped by
\* the interceptors outside it, is emitted; when none does, the exceptions handler gets it
C25_CaughtFailureBecomesSuccess ==
    \A r \in 1..Len(requests) :
        (/\ requests[r].route # 0
         /\ Logged(r, "handler")
         /\ ~Invoke(RouteOf(r).does, requests[r].args).ok) =>
            LET n == Len(RouteOf(r).interceptors)
                c == InnermostCatching(r)
                error == Invoke(RouteOf(r).does, requests[r].args).error
                value == Rewrapped(RouteOf(r).interceptors, c - 1,
                                   <<"error">> \o error.message)
            IN /\ Passed(r) = [i \in 1..(n - c) |-> n + 1 - i]
               /\ c # 0 =>
                     /\ ~Threw(r)
                     /\ ~Logged(r, "catch")
                     /\ requests[r].pc \in {"emit", "done"} => requests[r].result = value
                     /\ Logged(r, "emit") <=> requests[r].pc = "done"
                     /\ (requests[r].pc = "done" /\ ~Logged(r, "end")) =>
                           /\ requests[r].res.by = "emit"
                           /\ requests[r].res.data = value
               /\ c = 0 =>
                     /\ Threw(r)
                     /\ requests[r].error = error
                     /\ ~Logged(r, "emit")
                     /\ requests[r].pc = "done" => requests[r].res.by # "emit"

\* the handler threw inside three interceptors: the innermost let the failure pass, the
\* second caught it, and the first wrapped what the second returned, which was emitted
C25_CaughtBySecondOfThree ==
    \E r \in 1..Len(requests) :
        /\ requests[r].route # 0
        /\ RouteOf(r).interceptors =
              <<"TransformInterceptor", "errorHandlingInterceptor", "LoggingInterceptor">>
        /\ RouteOf(r).does = "crash"
        /\ requests[r].pc = "done"
        /\ Passed(r) = <<3>>
        /\ requests[r].res.by = "emit"
        /\ requests[r].res.data = <<"success", "error", "boom">>

----------------------------------------------------------------------------
(* Emission after the response was ended                                   *)

\* what the first writer of request r's response, other than step 6, has written
Early(r) ==
    LET i == CHOOSE i \in Entries(r, "end") : \A j \in Entries(r, "end") : i <= j
    IN IF requests[r].log[i].k = 0 THEN [by |-> "handler", data |-> <<"sent">>]
       ELSE [by |-> "interceptor", data |-> <<"early">>]

\* C26: once step 6 of a request has run, the response carries the serialized result
\* exactly when no interceptor and not the controller method had ended it before; when
\* one had, the response is what that one wrote
C26_EmitOnlyIfNotEnded ==
    \A r \in 1..Len(requests) :
        Logged(r, "emit") =>
            /\ requests[r].res.ended
            /\ ~Logged(r, "end") <=>
                  /\ requests[r].res.by = "emit"
                  /\ requests[r].res.data = requests[r].result
            /\ Logged(r, "end") =>
                  /\ requests[r].res.by = Early(r).by
                  /\ requests[r].res.data = Early(r).data

\* the controller method ended the response and returned: step 6 ran and wrote nothing
C26_HandlerAnsweredItself ==
    \E r \in 1..Len(requests) :
        /\ requests[r].route # 0
        /\ RouteOf(r).does = "send"
        /\ Logged(r, "emit")
        /\ requests[r].res.by = "handler"
        /\ requests[r].res.data = <<"sent">>
        /\ requests[r].result = <<"success">> \o Undef

----------------------------------------------------------------------------
(* Providers a module keeps to itself                                      *)

\* the bindings the searches through the imports of a module have returned so far, each
\* with the module the search started in
SearchResults ==
    {<<frames[f].moduleRef, frames[f].found>> :
        f \in {g \in 1..Len(frames) : /\ frames[g].fn = "lookupComponentInImports"
                                      /\ frames[g].found # <<>>}}

\* the components of module m constructed with the instance of a binding of another
\* module, each with that binding
InjectedFromOutside ==
    UNION {{<<w[1], v>> : v \in {b \in Bindings : /\ b[1] # w[1]
                                                  /\ Resolved(b)
                                                  /\ Contains(ArgsOf(w), wrappers[b].instance)}} :
           w \in {b \in Bindings : Resolved(b)}}

\* C27: a binding that a search started in another module returns, and a binding whose
\* instance a component of another module was constructed with, is of a token its module
\* exports
C27_UnexportedNeverInjectedOutside ==
    /\ \A x \in SearchResults :
          x[2][1] # x[1] => Contains(modExports[x[2][1]], x[2][2])
    /\ \A x \in InjectedFromOutside : Contains(modExports[x[2][1]], x[2][2])

\* AppModule imports ModuleA, which has a SharedService of its own that it does not
\* export: AppService was constructed with the SharedService of SharedModule behind it
C27_PassedOverUnexported ==
    /\ ResolvedFrom("SharedModule")
    /\ Head(DeclaredImports["AppModule"]) = "ModuleA"
    /\ Contains(modProviders["ModuleA"], "SharedService")
    /\ ~Contains(modExports["ModuleA"], "SharedService")
    /\ <<"AppModule", <<"SharedModule", "SharedService">>>> \in InjectedFromOutside

----------------------------------------------------------------------------
(* Exports and providers of a module                                       *)

\* C28: after scan, the tokens every registered module exports are among the tokens it
\* provides
C28_ExportsAmongOwnProviders ==
    ScanDone =>
        \A m \in Modules :
            HasModule(m) => SeqToSet(modExports[m]) \subseteq SeqToSet(modProviders[m])

----------------------------------------------------------------------------
(* Route paths                                                             *)

\* the positions of the separators of path p
Separators(p) == {i \in 1..Len(p) : p[i] = "/"}

\* C29: every route path starts with one separator, has no two separators in a row and
\* does not end with a separator unless it is the root path
C29_RoutePathNormalized ==
    \A k \in 1..Len(routes) :
        LET p == routes[k].path
        IN /\ p # <<>>
           /\ 1 \in Separators(p)
           /\ \A i \in Separators(p) : i + 1 \notin Separators(p)
           /\ Len(p) \in Separators(p) => p = <<"/">>

----------------------------------------------------------------------------
(* What requests leave alone                                               *)

\* C30: while the server is listening, no step changes a binding (its resolution state,
\* its instance), a constructed instance, the route table with the guards, pipes and
\* interceptors of each route, or the filters the exceptions handler was given
C30_RequestsLeaveBootstrapStateAlone ==
    [][phase = "listening" =>
          /\ phase' = "listening"
          /\ wrappers' = wrappers
          /\ instances' = instances
          /\ routes' = routes
          /\ customFilters' = customFilters]_vars

\* two requests were answered, one that no route matched and one whose handling failed
C30_UnmatchedAndFailedServed ==
    /\ phase = "listening"
    /\ Len(requests) = 2
    /\ \A r \in 1..2 : requests[r].pc = "done"
    /\ \E r \in 1..2 : requests[r].route = 0
    /\ \E r \in 1..2 : requests[r].route # 0 /\ Threw(r) /\ customFilters # <<>>

----------------------------------------------------------------------------
(* Controller-level and handler-level declarations                         *)

\* the classes named on the controller of a route, then those named on its handler
Declared(route) ==
    LET c == metadata.controller[route.controllerClass]
        h == HandlerOf(route)
    IN [guards |-> c.guards \o h.guards, pipes |-> c.pipes \o h.pipes,
        interceptors |-> c.interceptors \o h.interceptors, filters |-> c.filters \o h.filters]

----------------------------------------------------------------------------
(* What the scan records for each module                                   *)

\* C32: after scan every registered module holds one binding for each provider and each
\* controller it declares and no other, imports exactly the modules it declares as
\* imports, all of them registered, and exports exactly the tokens it declares as
\* exports; nothing is recorded for a module that is not registered
C32_ModuleHoldsItsOwnDeclarations ==
    ScanDone =>
        \A m \in Modules :
            IF HasModule(m)
            THEN /\ SeqToSet(modProviders[m]) = SeqToSet(metadata.providers[m])
                 /\ SeqToSet(modControllers[m]) = SeqToSet(metadata.controllers[m])
                 /\ SeqToSet(modImports[m]) = SeqToSet(metadata.imports[m])
                 /\ SeqToSet(modExports[m]) = SeqToSet(metadata.exports[m])
                 /\ NoRepeat(modProviders[m]) /\ NoRepeat(modControllers[m])
                 /\ NoRepeat(modImports[m]) /\ NoRepeat(modExports[m])
                 /\ \A b \in SeqToSet(modImports[m]) : HasModule(b)
            ELSE /\ modProviders[m] = <<>> /\ modControllers[m] = <<>>
                 /\ modImports[m] = <<>> /\ modExports[m] = <<>>
                 /\ \A c \in Components : wrappers[<<m, c>>] = NewWrapper

\* ModuleA, registered with a provider, an export and an import of its own, next to a
\* module that is not registered
C32_ModuleAWired ==
    /\ ScanDone
    /\ modProviders["ModuleA"] = <<"SharedService">>
    /\ modExports["ModuleA"] = <<"SharedService">>
    /\ modImports["ModuleA"] = <<"SharedModule">>
    /\ modProviders["AppModule"] = <<"AppService">>
    /\ ~HasModule("ModuleB")

----------------------------------------------------------------------------
(* The ids of CatsService                                                  *)

\* C33: no two stored records share an id, and the id a create returns is greater than
\* every id assigned before it
C33_IdsUniqueAndIncreasing ==
    /\ \A j, k \in 1..Len(catsService.cats) :
          catsService.cats[j].id = catsService.cats[k].id => j = k
    /\ catsService.last.op = "create" =>
          \A id \in catsService.last.before : catsService.last.id > id

----------------------------------------------------------------------------
(* The search through imports that import each other                       *)

\* C34: when no registered module exports SharedService, whatever the import graph, the
\* search for it ends and bootstrap fails with the unresolved-dependency error
C34_SearchEndsNotFound ==
    (/\ Injected
     /\ \A m \in Modules : HasModule(m) => ~Contains(modExports[m], "SharedService")) =>
        /\ phase = "failed"
        /\ frames[1].error.kind = "unresolved dependency"

\* the search goes on from one import cycle to the next without ever filling the stack
SearchWithoutEnd ==
    /\ Cardinality(Lookups) = MaxLookups
    /\ Len(stack) < MaxStack
    /\ \A f \in Lookups : frames[f].state # "rejected"


----------------------------------------------------------------------------
(* One body for each response                                              *)

\* C35: the response of a request that matched a route is sent at most one body, whoever
\* wrote it: the controller method, an interceptor, step 6 or the exceptions handler; a
\* response that the controller method or an interceptor ended before the request failed
\* stays what that one wrote, and the exceptions handler adds no error body to it
C35_ResponseEndedAtMostOnce ==
    \A r \in 1..Len(requests) :
        requests[r].route # 0 =>
            /\ requests[r].res.bodies <= 1
            /\ requests[r].res.ended <=> requests[r].res.bodies = 1
            /\ Logged(r, "end") =>
                  /\ requests[r].res.by = Early(r).by
                  /\ requests[r].res.data = Early(r).data
                  /\ requests[r].res.fields = {}
            /\ Logged(r, "catch") /\ ~Logged(r, "end") =>
                  requests[r].res.by \notin {"emit", "handler", "interceptor"}

\* the controller method ended the response and then threw: the exceptions handler ran
\* and the response is still the one the method sent
C35_HandlerEndedThenFailed ==
    \E r \in 1..Len(requests) :
        /\ requests[r].route # 0
        /\ RouteOf(r).does = "sendThenFail"
        /\ Logged(r, "catch")
        /\ requests[r].pc = "done"
        /\ requests[r].res.by = "handler"
        /\ requests[r].res.data = <<"sent">>
        /\ requests[r].res.bodies = 1


----------------------------------------------------------------------------
(* Requests in flight together                                             *)

\* the last k entries of a sequence
Suffix(seq, k) == SubSeq(seq, Len(seq) - k + 1, Len(seq))

\* C36: whatever the order in which two requests in flight continue from the points where
\* they wait, each stage of a request works on that request alone: its guards decide on
\* its own headers, its body and arguments are its own, the controller method is given
\* its own arguments, and its response carries its own result or its own error
C36_RequestsKeepTheirOwn ==
    \A r \in 1..Len(requests) :
        requests[r].route # 0 =>
            LET req == requests[r]
                out == Invoke(RouteOf(r).does, req.transformed)
            IN /\ \A i \in Entries(r, "guard") :
                     \/ CanActivate(RouteOf(r).guards[req.log[i].k], req)
                     \/ /\ req.error = Exception("ForbiddenException", 403, <<"Forbidden resource">>)
                        /\ \A j \in Entries(r, "guard") : j <= i
               /\ Logged(r, "body") => req.parsed = JsonParse(req.body)
               /\ Logged(r, "params") /\ ~Logged(r, "interceptors") =>
                     req.args = Args(req, RouteOf(r))
               /\ Logged(r, "interceptors") => req.args = req.transformed
               /\ Logged(r, "handler") /\ ~out.ok => req.error = out.error
               /\ Logged(r, "handler") /\ out.ok =>
                     /\ ~Threw(r)
                     /\ Len(req.result) >= Len(out.value)
                     /\ Suffix(req.result, Len(out.value)) = out.value
               /\ Logged(r, "emit") /\ ~Logged(r, "end") =>
                     /\ req.res.by = "emit"
                     /\ req.res.data = req.result
               /\ Logged(r, "catch") /\ ~Logged(r, "end") =>
                     req.res = Handle(req.offered, req.error, NoResponse)

\* the second request was received while the first waited for its body, and was answered
\* with its own result before the first went on
C36_SecondOvertookFirst ==
    /\ Len(requests) = 2
    /\ requests[1].route # 0
    /\ requests[2].route # 0
    /\ requests[1].pc = "body"
    /\ requests[1].body # requests[2].body
    /\ requests[2].pc = "done"
    /\ Logged(2, "emit")
    /\ requests[2].res.by = "emit"
    /\ requests[2].args # <<>>


----------------------------------------------------------------------------
(* Dispatch segment by segment                                             *)

\* the template and the path have the same number of segments, every literal segment of
\* the template equals the segment of the path, and every parameter segment stands where
\* the path has a segment that is not empty
SegmentsMatch(template, pathname) ==
    LET routeParts == Split(template)
        actualParts == Split(pathname)
    IN /\ Len(routeParts) = Len(actualParts)
       /\ \A k \in 1..Len(routeParts) :
             IF routeParts[k] # <<>> /\ Head(routeParts[k]) = ":" /\ Len(routeParts[k]) >= 2
             THEN actualParts[k] # <<>>
             ELSE routeParts[k] = actualParts[k]

\* C37: a request is dispatched to the first route, in the order of registration, whose
\* method is the method of the request and whose template matches the path segment by
\* segment, and to none when there is no such route
C37_FirstRouteMatchingBySegments ==
    \A r \in 1..Len(requests) :
        LET fits(k) == /\ routes[k].method = ToLowerCase(requests[r].method)
                       /\ SegmentsMatch(routes[k].path, Pathname(requests[r].url))
        IN /\ requests[r].route # 0 =>
                 /\ fits(requests[r].route)
                 /\ \A j \in 1..(requests[r].route - 1) : ~fits(j)
           /\ requests[r].route = 0 => \A k \in 1..Len(routes) : ~fits(k)

\* GET /cats/x went to /cats/:id, registered before the literal /cats/x, and the handler
\* was given 'x' as id
LiteralRegisteredLater ==
    \E r \in 1..Len(requests) :
        /\ requests[r].route = 1
        /\ Len(routes) = 2
        /\ routes[1].path = <<"/", "c", "a", "t", "s", "/", ":", "i", "d">>
        /\ routes[2].path = <<"/", "c", "a", "t", "s", "/", "x">>
        /\ requests[r].args = <<<<"string", "x">>>>


----------------------------------------------------------------------------
(* One instance for all the dependents of a provider                       *)

----------------------------------------------------------------------------
(* The order of the search                                                 *)

\* the calls of fn that have returned
ReturnedFrom(fn) == {f \in 1..Len(frames) : frames[f].fn = fn /\ frames[f].state = "fulfilled"}

----------------------------------------------------------------------------
(* The arguments after the transform stage                                 *)

\* the parameter decorator of position i (counted from 0) of a route's handler, if any
BoundAt(route, i) == {k \in 1..Len(route.args) : route.args[k].index = i}

\* C40: when the transform stage of a request has ended without an error, with at least one
\* declared transform every position that has a parameter decorator of a value of the
\* request (body, query, path parameter, header) holds the outcome of the whole chain on
\* the extracted value, the chain given the kind and the key of the decorator; every other
\* position, those of the request and the response object among them, holds what was
\* extracted; with no transform the list is the extracted one; and the stage fails only
\* at a position of the first kind
C40_BoundPositionsTransformedOthersKept ==
    \A r \in 1..Len(requests) :
        LET req == requests[r]
            route == RouteOf(r)
            extracted == Args(req, route)
            objects == {"REQUEST", "RESPONSE"}
            piped(i) == \E k \in BoundAt(route, i - 1) : route.args[k].type \notin objects
            chain(i) == LET k == CHOOSE k \in BoundAt(route, i - 1) : TRUE
                        IN ApplyPipes(extracted[i],
                                      [type |-> ParamTypeToString(route.args[k].type),
                                       data |-> route.args[k].data], route.pipes)
        IN /\ req.route # 0 /\ Logged(r, "interceptors") =>
                 /\ Len(req.transformed) = Len(extracted)
                 /\ \A i \in 1..Len(extracted) :
                       req.transformed[i] =
                           IF route.pipes # <<>> /\ piped(i) THEN chain(i).value
                           ELSE extracted[i]
           /\ req.route # 0 /\ Logged(r, "pipe") /\ Threw(r) /\ ~Logged(r, "interceptors") =>
                 LET i == req.log[CHOOSE j \in Entries(r, "pipe") :
                                     \A l \in Entries(r, "pipe") : l <= j].k + 1
                 IN piped(i) /\ ~chain(i).ok

\* the handler takes @Param('id') and @Res() and ParseIntPipe is declared: the id was
\* parsed, and the request was answered 400 because the response object is no integer
ResponseObjectPiped ==
    \E r \in 1..Len(requests) :
        /\ requests[r].route # 0
        /\ RouteOf(r).args = <<Arg(0, "PARAM", <<"i", "d">>), Arg(1, "RESPONSE", <<>>)>>
        /\ RouteOf(r).pipes = <<"ParseIntPipe">>
        /\ requests[r].transformed = <<<<"number", "1">>, <<"response">>>>
        /\ requests[r].pc = "done"
        /\ requests[r].res.statusCode = 400
        /\ ~Logged(r, "handler")

====
